---- MODULE Spec2Model ----
(***************************************************************************)
(* The command interpreter of the LINE accounting bot (package handler)   *)
(* and the category / transaction store it drives (packages model, db).   *)
(*                                                                         *)
(* Text is a sequence of runes.  A rune is written as a one-element       *)
(* string; a CJK rune is written by its pinyin ("xin" is U+65B0), since   *)
(* the module is kept in ASCII.  A reply is a sequence of string pieces:  *)
(* the literal parts of a format string are one piece each, the runes of  *)
(* a %s argument and the digits of a %d argument one piece per rune.      *)
(***************************************************************************)
EXTENDS Integers, Sequences, FiniteSets, TLC

VARIABLES DB, now, phase, userID, text, fail, reply, calls, procs

vars == <<DB, now, phase, userID, text, fail, reply, calls, procs>>

(***************************************************************************)
(* Bounds of the model.                                                    *)
(***************************************************************************)
\* categories ever inserted (values of the categories.id sequence)
MaxCategoryID == 2
\* transactions ever inserted (values of the transactions.id sequence)
MaxTransactionID == 2
\* clock ticks that pass after the initial instant
MaxTicks == 1
\* instants distinguished inside one calendar month
TicksPerMonth == 2

(***************************************************************************)
(* Runes and tokens.                                                       *)
(***************************************************************************)
Digits == <<"0", "1", "2", "3", "4", "5", "6", "7", "8", "9">>

IsDigit(r) == \E i \in 1..Len(Digits) : Digits[i] = r

DigitVal(r) == (CHOOSE i \in 1..Len(Digits) : Digits[i] = r) - 1

\* unicode.IsSpace, on the white space runes the model feeds in
IsSpace(r) == r \in {" ", "\t", "\n"}

\* the command keywords compared in HandleMessage
KwAddCategory == <<"xin", "zeng", "lei", "bie">>          \* 新增類別
KwUpdateCategory == <<"xiu", "gai", "lei", "bie">>        \* 修改類別
KwDeleteCategory == <<"shan", "chu", "lei", "bie">>       \* 刪除類別
KwListCategories == <<"yi", "she", "ding", "lei", "bie">> \* 已設定類別
KwUpdate == <<"xiu", "gai">>                              \* 修改
KwDelete == <<"shan", "chu">>                             \* 刪除
KwSummary == <<"jie", "suan">>                            \* 結算
KwHelp == <<"zhi", "ling", "da", "quan">>                 \* 指令大全

\* the two type labels the code compares with
Income == <<"shou", "ru">>                                \* 收入
Expense == <<"zhi", "chu">>                               \* 支出

YearSuffix == <<"nian">>                                  \* 年
MonthSuffix == <<"yue">>                                  \* 月

(***************************************************************************)
(* strings.Fields, strconv.Atoi, strings.TrimSuffix and the %d verb.      *)
(***************************************************************************)
RECURSIVE FieldsFrom(_, _, _, _)
FieldsFrom(s, i, cur, acc) ==
    IF i > Len(s)
    THEN IF cur = <<>> THEN acc ELSE Append(acc, cur)
    ELSE IF IsSpace(s[i])
         THEN FieldsFrom(s, i + 1, <<>>, IF cur = <<>> THEN acc ELSE Append(acc, cur))
         ELSE FieldsFrom(s, i + 1, Append(cur, s[i]), acc)

Fields(s) == FieldsFrom(s, 1, <<>>, <<>>)

RECURSIVE DecVal(_)
DecVal(ds) ==
    IF ds = <<>> THEN 0
    ELSE 10 * DecVal(SubSeq(ds, 1, Len(ds) - 1)) + DigitVal(ds[Len(ds)])

\* strconv.Atoi: an optional sign, then one or more decimal digits
Atoi(s) ==
    LET signed == s # <<>> /\ s[1] \in {"+", "-"}
        body == IF signed THEN Tail(s) ELSE s
        bad == body = <<>> \/ \E i \in 1..Len(body) : ~IsDigit(body[i])
    IN  IF bad THEN [err |-> TRUE, val |-> 0]
        ELSE [err |-> FALSE,
              val |-> IF signed /\ s[1] = "-" THEN 0 - DecVal(body) ELSE DecVal(body)]

TrimSuffix(s, suffix) ==
    IF Len(s) >= Len(suffix) /\ SubSeq(s, Len(s) - Len(suffix) + 1, Len(s)) = suffix
    THEN SubSeq(s, 1, Len(s) - Len(suffix))
    ELSE s

RECURSIVE NatDigits(_)
NatDigits(n) ==
    IF n < 10 THEN <<Digits[n + 1]>>
    ELSE Append(NatDigits(n \div 10), Digits[(n % 10) + 1])

\* fmt's %d of an int
Itoa(n) == IF n < 0 THEN <<"-">> \o NatDigits(0 - n) ELSE NatDigits(n)

(***************************************************************************)
(* Time.  An instant is a number of ticks since the first instant of      *)
(* January of EpochYear, UTC; a month holds TicksPerMonth instants.       *)
(***************************************************************************)
EpochYear == 2025

MonthsPerYear == 12

\* time.Date(year, month, 1, 0, 0, 0, 0, time.UTC); a month outside 1..12 is
\* normalised into the neighbouring years, as time.Date does
Date(year, month) == ((year - EpochYear) * MonthsPerYear + (month - 1)) * TicksPerMonth

\* t.Year() and t.Month()
Year(t) == EpochYear + ((t \div TicksPerMonth) \div MonthsPerYear)

Month(t) == ((t \div TicksPerMonth) % MonthsPerYear) + 1

\* t.AddDate(0, 1, 0) of the first instant of a month
AddMonth(t) == Date(Year(t), Month(t) + 1)

\* the clock starts at the last instant of December of EpochYear
StartTick == Date(EpochYear, MonthsPerYear) + (TicksPerMonth - 1)

(***************************************************************************)
(* The store: the tables of createTables and their id sequences.          *)
(*   categories   (id, user_id, name, type), UNIQUE(user_id, name)         *)
(*   transactions (id, user_id, type, amount, category_id, created_at),    *)
(*                category_id REFERENCES categories(id) ON DELETE CASCADE  *)
(* Every store call takes the store and a flag: the call fails with a     *)
(* connection or query error.  It returns what the Go function returns,   *)
(* and the store after it where it writes.                                 *)
(***************************************************************************)
EmptyDB ==
    [categories |-> {}, transactions |-> {},
     categories_id_seq |-> 1, transactions_id_seq |-> 1]

\* Postgres INTEGER: the range of transactions.amount
PgIntegerMax == 2147483647

\* error values: "nil", "conn" (connection or query failure), "ErrNoRows",
\* "unique_violation", "foreign_key_violation", "out_of_range"
CheckCategoryExists(db, failing, user, name, typeName) ==
    IF failing THEN [err |-> "conn", exists |-> FALSE]
    ELSE [err |-> "nil",
          exists |-> \E c \in db.categories :
                        c.user_id = user /\ c.name = name /\ c.type = typeName]

\* AddCategory on a table without UNIQUE(user_id, name)
AddCategoryNoUnique(db, failing, user, name, typeName) ==
    IF failing THEN [err |-> "conn", db |-> db]
    ELSE [err |-> "nil",
          db |-> [db EXCEPT
                    !.categories = @ \cup {[id |-> db.categories_id_seq, user_id |-> user,
                                            name |-> name, type |-> typeName]},
                    !.categories_id_seq = @ + 1]]

\* AddCategory on a table that hands out the smallest free id again
AddCategoryReuseID(db, failing, user, name, typeName) ==
    LET used == {c.id : c \in db.categories}
        free == CHOOSE i \in 1..db.categories_id_seq :
                   i \notin used /\ \A j \in 1..(i - 1) : j \in used
    IN  IF failing THEN [err |-> "conn", db |-> db]
        ELSE IF \E c \in db.categories : c.user_id = user /\ c.name = name
        THEN [err |-> "unique_violation", db |-> db]
        ELSE [err |-> "nil",
              db |-> [db EXCEPT
                        !.categories = @ \cup {[id |-> free, user_id |-> user,
                                                name |-> name, type |-> typeName]},
                        !.categories_id_seq = @ + 1]]

AddCategory(db, failing, user, name, typeName) ==
    IF failing THEN [err |-> "conn", db |-> db]
    ELSE IF \E c \in db.categories : c.user_id = user /\ c.name = name
    THEN [err |-> "unique_violation", db |-> db]
    ELSE [err |-> "nil",
          db |-> [db EXCEPT
                    !.categories = @ \cup {[id |-> db.categories_id_seq, user_id |-> user,
                                            name |-> name, type |-> typeName]},
                    !.categories_id_seq = @ + 1]]

\* UpdateCategory that renames by deleting the row and inserting a new one
UpdateCategoryReinsert(db, failing, user, oldName, newName) ==
    LET hit == {c \in db.categories : c.user_id = user /\ c.name = oldName}
        rest == db.categories \ hit
    IN  IF failing THEN [err |-> "conn", updated |-> FALSE, db |-> db]
        ELSE IF hit # {} /\ \E c \in rest : c.user_id = user /\ c.name = newName
        THEN [err |-> "unique_violation", updated |-> FALSE, db |-> db]
        ELSE IF hit = {} THEN [err |-> "nil", updated |-> FALSE, db |-> db]
        ELSE [err |-> "nil", updated |-> TRUE,
              db |-> [db EXCEPT
                        !.categories = rest \cup {[c EXCEPT !.name = newName,
                                                            !.id = db.categories_id_seq]
                                                  : c \in hit},
                        !.categories_id_seq = @ + 1,
                        !.transactions = {t \in @ : t.category_id \notin {c.id : c \in hit}}]]

\* UpdateCategory that, when the new name is taken, moves the transactions
\* of the old category to the category of the new name and drops the old one
UpdateCategoryMerge(db, failing, user, oldName, newName) ==
    LET hit == {c \in db.categories : c.user_id = user /\ c.name = oldName}
        rest == db.categories \ hit
        taken == {c \in rest : c.user_id = user /\ c.name = newName}
    IN  IF failing THEN [err |-> "conn", updated |-> FALSE, db |-> db]
        ELSE IF hit # {} /\ taken # {}
        THEN [err |-> "nil", updated |-> TRUE,
              db |-> [db EXCEPT
                        !.categories = rest,
                        !.transactions =
                           {IF \E c \in hit : c.id = t.category_id
                            THEN [t EXCEPT !.category_id = (CHOOSE c \in taken : TRUE).id]
                            ELSE t : t \in @}]]
        ELSE [err |-> "nil", updated |-> hit # {},
              db |-> [db EXCEPT
                        !.categories = rest \cup {[c EXCEPT !.name = newName] : c \in hit}]]

UpdateCategory(db, failing, user, oldName, newName) ==
    LET hit == {c \in db.categories : c.user_id = user /\ c.name = oldName}
        rest == db.categories \ hit
    IN  IF failing THEN [err |-> "conn", updated |-> FALSE, db |-> db]
        ELSE IF hit # {} /\ \E c \in rest : c.user_id = user /\ c.name = newName
        THEN [err |-> "unique_violation", updated |-> FALSE, db |-> db]
        ELSE [err |-> "nil", updated |-> hit # {},
              db |-> [db EXCEPT
                        !.categories = rest \cup {[c EXCEPT !.name = newName] : c \in hit}]]

\* DeleteCategory on a table whose transactions are not removed with it
DeleteCategoryNoCascade(db, failing, user, name) ==
    LET hit == {c \in db.categories : c.user_id = user /\ c.name = name}
    IN  IF failing THEN [err |-> "conn", deleted |-> FALSE, db |-> db]
        ELSE [err |-> "nil", deleted |-> hit # {},
              db |-> [db EXCEPT !.categories = @ \ hit]]

DeleteCategory(db, failing, user, name) ==
    LET hit == {c \in db.categories : c.user_id = user /\ c.name = name}
        ids == {c.id : c \in hit}
    IN  IF failing THEN [err |-> "conn", deleted |-> FALSE, db |-> db]
        ELSE [err |-> "nil", deleted |-> hit # {},
              db |-> [db EXCEPT
                        !.categories = @ \ hit,
                        !.transactions = {t \in @ : t.category_id \notin ids}]]

\* the names of a user's categories of one type, ORDER BY name: by the
\* position of the name in sortedNames
RECURSIVE SelectNames(_, _)
SelectNames(sortedNames, S) ==
    IF sortedNames = <<>> THEN <<>>
    ELSE (IF Head(sortedNames) \in S THEN <<Head(sortedNames)>> ELSE <<>>)
         \o SelectNames(Tail(sortedNames), S)

GetCategoriesByType(db, failing, user, sortedNames) ==
    IF failing THEN [err |-> "conn", byType |-> [ty \in {} |-> <<>>]]
    ELSE LET mine == {c \in db.categories : c.user_id = user}
             types == {c.type : c \in mine}
         IN  [err |-> "nil",
              byType |-> [ty \in types |->
                            SelectNames(sortedNames, {c.name : c \in {d \in mine : d.type = ty}})]]

\* GetCategoryIdAndType that selects by name alone
GetCategoryIdAndTypeAnyUser(db, failing, user, name) ==
    LET hit == {c \in db.categories : c.name = name}
    IN  IF failing THEN [err |-> "conn", id |-> 0, type |-> <<>>]
        ELSE IF hit = {} THEN [err |-> "ErrNoRows", id |-> 0, type |-> <<>>]
        ELSE LET c == CHOOSE c \in hit : TRUE
             IN  [err |-> "nil", id |-> c.id, type |-> c.type]

GetCategoryIdAndType(db, failing, user, name) ==
    LET hit == {c \in db.categories : c.user_id = user /\ c.name = name}
    IN  IF failing THEN [err |-> "conn", id |-> 0, type |-> <<>>]
        ELSE IF hit = {} THEN [err |-> "ErrNoRows", id |-> 0, type |-> <<>>]
        ELSE LET c == CHOOSE c \in hit : TRUE
             IN  [err |-> "nil", id |-> c.id, type |-> c.type]

GetCategoriesInfo(db, failing, user) ==
    IF failing THEN [err |-> "conn", info |-> [n \in {} |-> <<>>]]
    ELSE LET mine == {c \in db.categories : c.user_id = user}
         IN  [err |-> "nil",
              info |-> [n \in {c.name : c \in mine} |->
                          (CHOOSE c \in mine : c.name = n).type]]

\* AddTransaction on a table without the foreign key to categories
AddTransactionNoForeignKey(db, failing, user, categoryID, transType, amount, at) ==
    IF failing THEN [err |-> "conn", db |-> db]
    ELSE [err |-> "nil",
          db |-> [db EXCEPT
                    !.transactions = @ \cup {[id |-> db.transactions_id_seq, user_id |-> user,
                                              type |-> transType, amount |-> amount,
                                              category_id |-> categoryID, created_at |-> at]},
                    !.transactions_id_seq = @ + 1]]

AddTransaction(db, failing, user, categoryID, transType, amount, at) ==
    IF failing THEN [err |-> "conn", db |-> db]
    ELSE IF amount > PgIntegerMax \/ amount < (0 - PgIntegerMax) - 1
    THEN [err |-> "out_of_range", db |-> db]
    ELSE IF ~\E c \in db.categories : c.id = categoryID
    THEN [err |-> "foreign_key_violation", db |-> db]
    ELSE [err |-> "nil",
          db |-> [db EXCEPT
                    !.transactions = @ \cup {[id |-> db.transactions_id_seq, user_id |-> user,
                                              type |-> transType, amount |-> amount,
                                              category_id |-> categoryID, created_at |-> at]},
                    !.transactions_id_seq = @ + 1]]

\* UpdateTransaction that reports success without writing the amount
UpdateTransactionLost(db, failing, id, amount) ==
    IF failing THEN [err |-> "conn", db |-> db] ELSE [err |-> "nil", db |-> db]

\* UpdateTransaction that updates every row with the amount of the row found
UpdateTransactionAllOfAmount(db, failing, id, amount) ==
    LET found == {t.amount : t \in {x \in db.transactions : x.id = id}}
    IN  IF failing THEN [err |-> "conn", db |-> db]
        ELSE [err |-> "nil",
              db |-> [db EXCEPT
                        !.transactions = {IF t.amount \in found
                                          THEN [t EXCEPT !.amount = amount] ELSE t : t \in @}]]

\* UPDATE ... WHERE id = $2: no row affected is not an error
UpdateTransaction(db, failing, id, amount) ==
    IF failing THEN [err |-> "conn", db |-> db]
    ELSE IF amount > PgIntegerMax \/ amount < (0 - PgIntegerMax) - 1
    THEN [err |-> "out_of_range", db |-> db]
    ELSE [err |-> "nil",
          db |-> [db EXCEPT
                    !.transactions = {IF t.id = id THEN [t EXCEPT !.amount = amount] ELSE t
                                      : t \in @}]]

\* DeleteTransaction that reports success without removing the row
DeleteTransactionLost(db, failing, id) ==
    IF failing THEN [err |-> "conn", db |-> db] ELSE [err |-> "nil", db |-> db]

\* DELETE ... WHERE id = $1: no row affected is not an error
\* DeleteTransaction that removes every row with the category and amount of
\* the row named
DeleteTransactionAllAlike(db, failing, id) ==
    IF failing THEN [err |-> "conn", db |-> db]
    ELSE [err |-> "nil",
          db |-> [db EXCEPT
                    !.transactions =
                       {t \in @ : ~\E s \in @ : /\ s.id = id
                                                /\ s.category_id = t.category_id
                                                /\ s.amount = t.amount}]]

DeleteTransaction(db, failing, id) ==
    IF failing THEN [err |-> "conn", db |-> db]
    ELSE [err |-> "nil", db |-> [db EXCEPT !.transactions = {t \in @ : t.id # id}]]

\* MatchingTransactions without the condition on the user
MatchingTransactionsAnyUser(db, user, categoryName, amount) ==
    {t \in db.transactions :
        /\ t.amount = amount
        /\ \E c \in db.categories : c.id = t.category_id /\ c.name = categoryName}

\* the rows of FindTransactionID's join, before LIMIT 1
MatchingTransactions(db, user, categoryName, amount) ==
    {t \in db.transactions :
        /\ t.user_id = user
        /\ t.amount = amount
        /\ \E c \in db.categories : c.id = t.category_id /\ c.name = categoryName}

\* LIMIT 1 without ORDER BY: the store returns any one matching row, so
\* the call has a set of possible results
FindTransactionID(db, failing, user, categoryName, amount) ==
    LET hit == MatchingTransactions(db, user, categoryName, amount)
    IN  IF failing THEN {[err |-> "conn", id |-> 0]}
        ELSE IF hit = {} THEN {[err |-> "ErrNoRows", id |-> 0]}
        ELSE {[err |-> "nil", id |-> t.id] : t \in hit}

RECURSIVE SumAmounts(_)
SumAmounts(T) ==
    IF T = {} THEN 0
    ELSE LET t == CHOOSE t \in T : TRUE IN t.amount + SumAmounts(T \ {t})

\* SummaryRows whose window includes the first instant of the next month
SummaryRowsClosed(db, user, start, end) ==
    LET joined == {tc \in db.transactions \X db.categories :
                      /\ tc[1].category_id = tc[2].id
                      /\ tc[1].user_id = user
                      /\ tc[1].created_at >= start
                      /\ tc[1].created_at <= end}
        groups == {<<tc[1].type, tc[2].name>> : tc \in joined}
    IN  {[type |-> g[1], name |-> g[2],
          total |-> SumAmounts({tc[1] : tc \in {x \in joined :
                                    x[1].type = g[1] /\ x[2].name = g[2]}})] : g \in groups}

\* the rows of GetMonthlySummary's query: one per (t.type, c.name) group
SummaryRows(db, user, start, end) ==
    LET joined == {tc \in db.transactions \X db.categories :
                      /\ tc[1].category_id = tc[2].id
                      /\ tc[1].user_id = user
                      /\ tc[1].created_at >= start
                      /\ tc[1].created_at < end}
        groups == {<<tc[1].type, tc[2].name>> : tc \in joined}
    IN  {[type |-> g[1], name |-> g[2],
          total |-> SumAmounts({tc[1] : tc \in {x \in joined :
                                    x[1].type = g[1] /\ x[2].name = g[2]}})] : g \in groups}

\* GetMonthlySummary that puts a row under income by the sign of its total
GetMonthlySummaryBySign(db, failing, user, month) ==
    LET start == Date(Year(month), Month(month))
        end == AddMonth(start)
        rows == SummaryRows(db, user, start, end)
        names == {r.name : r \in rows}
        income == SumAmounts({[amount |-> r.total, k |-> r] : r \in {x \in rows : x.total > 0}})
        expense == SumAmounts({[amount |-> r.total, k |-> r] : r \in {x \in rows : x.total <= 0}})
    IN  IF failing
        THEN {[err |-> "conn", IncomeTotal |-> 0, ExpenseTotal |-> 0,
               CategoryTotals |-> [n \in {} |-> 0]]}
        ELSE {[err |-> "nil", IncomeTotal |-> income, ExpenseTotal |-> expense,
               CategoryTotals |-> ct] :
                ct \in {f \in [names -> {r.total : r \in rows}] :
                          \A n \in names : \E r \in rows : r.name = n /\ r.total = f[n]}}

\* the rows come in no stated order and CategoryTotals[name] is assigned
\* per row, so a name that has rows under two types keeps the total of
\* whichever row the store returns last: a set of possible results
GetMonthlySummary(db, failing, user, month) ==
    LET start == Date(Year(month), Month(month))
        end == AddMonth(start)
        rows == SummaryRows(db, user, start, end)
        names == {r.name : r \in rows}
        income == SumAmounts({[amount |-> r.total, k |-> r] : r \in {x \in rows : x.type = Income}})
        expense == SumAmounts({[amount |-> r.total, k |-> r] : r \in {x \in rows : x.type # Income}})
    IN  IF failing
        THEN {[err |-> "conn", IncomeTotal |-> 0, ExpenseTotal |-> 0,
               CategoryTotals |-> [n \in {} |-> 0]]}
        ELSE {[err |-> "nil", IncomeTotal |-> income, ExpenseTotal |-> expense,
               CategoryTotals |-> ct] :
                ct \in {f \in [names -> {r.total : r \in rows}] :
                          \A n \in names : \E r \in rows : r.name = n /\ r.total = f[n]}}

(***************************************************************************)
(* The replies.  TryLater is the closing part, 請稍後再試。, of every      *)
(* "try again later" message.                                              *)
(***************************************************************************)
TryLater == "qing shaohou zai shi."

\* 請輸入有效的指令。
MsgEmptyInput == <<"qing shuru youxiao de zhiling.">>
\* ❓ 指令不正確，請重新輸入。
MsgUnrecognized == <<"[?] zhiling bu zhengque, qing chongxin shuru.">>
\* ❌ 類別檢查失敗，請稍後再試。
MsgCheckFailed == <<"[x] leibie jiancha shibai, ", TryLater>>
\* ❌ 類別 %s 已存在，請使用其他名稱。
MsgCategoryExists(name) == <<"[x] leibie ">> \o name \o <<" yi cunzai, qing shiyong qita mingcheng.">>
\* ❌ 新增類別失敗，請稍後再試。
MsgAddFailed == <<"[x] xinzeng leibie shibai, ", TryLater>>
\* ✅ 類別 %s 已新增！
MsgCategoryAdded(name) == <<"[v] leibie ">> \o name \o <<" yi xinzeng!">>
\* ❌ 修改失敗，請稍後再試。
MsgUpdateFailed == <<"[x] xiugai shibai, ", TryLater>>
\* ❌ 類別不存在。
MsgCategoryNotFound == <<"[x] leibie bu cunzai.">>
\* ✏️ 類別已修改為：%s
MsgCategoryUpdated(newName) == <<"[pen] leibie yi xiugai wei: ">> \o newName
\* ❌ 刪除失敗，請稍後再試。
MsgDeleteFailed == <<"[x] shanchu shibai, ", TryLater>>
\* 🗑️ 類別 %s 已刪除
MsgCategoryDeleted(name) == <<"[bin] leibie ">> \o name \o <<" yi shanchu">>
\* ❌ 類別查詢失敗，請稍後再試。
MsgListFailed == <<"[x] leibie chaxun shibai, ", TryLater>>
\* ⚠️ 你尚未新增任何類別。
MsgNoCategories == <<"[!] ni shangwei xinzeng renhe leibie.">>
\* 金額格式錯誤
MsgAmountFormat == <<"jin'e geshi cuowu">>
\* 金額格式錯誤，請輸入數字。
MsgAmountFormatDigits == <<"jin'e geshi cuowu, qing shuru shuzi.">>
\* ❌ 類別不存在，請先新增。
MsgCategoryMissing == <<"[x] leibie bu cunzai, qing xian xinzeng.">>
\* 記錄失敗，請稍後再試。
MsgRecordFailed == <<"jilu shibai, ", TryLater>>
\* ✅ %s $%d 類別：%s 已記錄！
MsgRecorded(categoryType, amount, categoryName) ==
    <<"[v] ">> \o categoryType \o <<" $">> \o Itoa(amount) \o <<" leibie: ">>
        \o categoryName \o <<" yi jilu!">>
\* ❌ 找不到符合條件的紀錄。
MsgNoMatchingRecord == <<"[x] zhaobudao fuhe tiaojian de jilu.">>
\* ✅ 已將 %s 的金額從 $%d 修改為 $%d。
MsgTransactionUpdated(category, oldAmount, newAmount) ==
    <<"[v] yi jiang ">> \o category \o <<" de jin'e cong $">> \o Itoa(oldAmount)
        \o <<" xiugai wei $">> \o Itoa(newAmount) \o <<".">>
\* 🗑️ 已刪除 %s $%d 的紀錄。
MsgTransactionDeleted(category, amount) ==
    <<"[bin] yi shanchu ">> \o category \o <<" $">> \o Itoa(amount) \o <<" de jilu.">>
\* ⚠️ 結算格式錯誤，請使用：結算 或 結算 2025年 5月
MsgSummaryFormat == <<"[!] jiesuan geshi cuowu, qing shiyong: jiesuan huo jiesuan 2025nian 5yue">>
\* 取得報表失敗，請稍後再試。
MsgSummaryFailed == <<"qude baobiao shibai, ", TryLater>>
\* 📊 %d年%d月\n收入：$%d\n支出：$%d\n\n
MsgSummaryHeader(year, month, income, expense) ==
    <<"[chart] ">> \o Itoa(year) \o <<"nian">> \o Itoa(month) \o <<"yue", "\n", "shouru: $">>
        \o Itoa(income) \o <<"\n", "zhichu: $">> \o Itoa(expense) \o <<"\n", "\n">>
\* 💰 收入明細：\n   and   💸 支出明細：\n
IncomeDetailTitle == <<"[money] shouru mingxi:", "\n">>
ExpenseDetailTitle == <<"[wings] zhichu mingxi:", "\n">>
\* ・%s：$%d\n
MsgDetailLine(cat, amt) == <<"* ">> \o cat \o <<": $">> \o Itoa(amt) \o <<"\n">>
\* 💰 淨收益：$%d
MsgNet(net) == <<"[money] jing shouyi: $">> \o Itoa(net)
\* 📂 你的可用類別：\n , 💰 收入類別：\n , 💸 支出類別：\n , ・%s\n
ListHeader == <<"[folder] ni de keyong leibie:", "\n">>
IncomeListTitle == <<"[money] shouru leibie:", "\n">>
ExpenseListTitle == <<"[wings] zhichu leibie:", "\n">>
MsgListLine(name) == <<"* ">> \o name \o <<"\n">>

\* getHelpText: the fixed reference of the commands
getHelpText ==
    <<"[book] zhiling daquan:", "\n", "\n",
      "[folder] leibie guanli", "\n",
      "- xinzeng leibie zhichu/shouru leibie mingcheng", "\n",
      "- xiugai leibie jiu mingcheng xin mingcheng", "\n",
      "- shanchu leibie mingcheng", "\n",
      "- yi sheding leibie", "\n", "\n",
      "[memo] jizhang yu chaxun", "\n",
      "- leibie mingcheng jin'e", "\n",
      "- xiugai leibie mingcheng yuan jin'e xin jin'e", "\n",
      "- shanchu leibie mingcheng jin'e", "\n", "\n",
      "[chart] yuejie baobiao", "\n",
      "- jiesuan 2025nian 5yue">>

(***************************************************************************)
(* The command handlers.  A handler that makes two store calls is two     *)
(* operators: the handler up to and including its first store call, and   *)
(* (...Then) the rest of it, run on the store as it is when the second    *)
(* call is made.  Each takes a flag: its store call fails with a          *)
(* connection or query error.  An outcome is the reply, the store after   *)
(* the command, the store calls made, and whether one failed with a       *)
(* connection or query error.  The first part yields either an outcome    *)
(* (the handler returned) or the handler's local variables.               *)
(***************************************************************************)
Out(r, db, made, failed) == [reply |-> r, db |-> db, calls |-> made, failed |-> failed]

NoOut == Out(<<>>, EmptyDB, <<>>, FALSE)

NoSummary == [err |-> "nil", IncomeTotal |-> 0, ExpenseTotal |-> 0, CategoryTotals |-> <<>>]

\* the local variables of a handler between its two store calls
NoLocals ==
    [handler |-> "", user |-> "", name |-> <<>>, typeName |-> <<>>, categoryID |-> 0,
     amount |-> 0, newAmount |-> 0, transactionID |-> 0, targetMonth |-> 0,
     summary |-> NoSummary]

Final(o) == [done |-> TRUE, out |-> o, k |-> NoLocals]

Cont(k) == [done |-> FALSE, out |-> NoOut, k |-> k]

handleAddCategory(db, failing, user, typeName, name) ==
    LET chk == CheckCategoryExists(db, failing, user, name, typeName)
        c1 == <<"CheckCategoryExists">>
    IN  IF chk.err # "nil" THEN {Final(Out(MsgCheckFailed, db, c1, TRUE))}
        ELSE IF chk.exists THEN {Final(Out(MsgCategoryExists(name), db, c1, FALSE))}
        ELSE {Cont([NoLocals EXCEPT !.handler = "handleAddCategory", !.user = user,
                                    !.name = name, !.typeName = typeName])}

\* handleAddCategoryThen that does not look at the error of the insert
handleAddCategoryThenIgnoreError(db, failing, k) ==
    LET ins == AddCategory(db, failing, k.user, k.name, k.typeName)
        c2 == <<"CheckCategoryExists", "AddCategory">>
    IN  {Out(MsgCategoryAdded(k.name), ins.db, c2, ins.err = "conn")}

handleAddCategoryThen(db, failing, k) ==
    LET ins == AddCategory(db, failing, k.user, k.name, k.typeName)
        c2 == <<"CheckCategoryExists", "AddCategory">>
    IN  IF ins.err # "nil" THEN {Out(MsgAddFailed, db, c2, ins.err = "conn")}
        ELSE {Out(MsgCategoryAdded(k.name), ins.db, c2, FALSE)}

\* handleUpdateCategory that does not look at the number of rows updated
handleUpdateCategoryNoRowCheck(db, failing, user, oldName, newName) ==
    LET upd == UpdateCategory(db, failing, user, oldName, newName)
        c1 == <<"UpdateCategory">>
    IN  IF upd.err # "nil" THEN {Out(MsgUpdateFailed, db, c1, upd.err = "conn")}
        ELSE {Out(MsgCategoryUpdated(newName), upd.db, c1, FALSE)}

handleUpdateCategory(db, failing, user, oldName, newName) ==
    LET upd == UpdateCategory(db, failing, user, oldName, newName)
        c1 == <<"UpdateCategory">>
    IN  IF upd.err # "nil" THEN {Out(MsgUpdateFailed, db, c1, upd.err = "conn")}
        ELSE IF ~upd.updated THEN {Out(MsgCategoryNotFound, db, c1, FALSE)}
        ELSE {Out(MsgCategoryUpdated(newName), upd.db, c1, FALSE)}

handleDeleteCategory(db, failing, user, name) ==
    LET del == DeleteCategory(db, failing, user, name)
        c1 == <<"DeleteCategory">>
    IN  IF del.err # "nil" THEN {Out(MsgDeleteFailed, db, c1, TRUE)}
        ELSE IF ~del.deleted THEN {Out(MsgCategoryNotFound, db, c1, FALSE)}
        ELSE {Out(MsgCategoryDeleted(name), del.db, c1, FALSE)}

RECURSIVE ListLines(_)
ListLines(names) ==
    IF names = <<>> THEN <<>> ELSE MsgListLine(Head(names)) \o ListLines(Tail(names))

\* the names of the model in the order of ORDER BY name: 午餐, 獎金, 結算
\* (by code point: U+5348, U+734E, U+7D50)
Collation == <<(<<"wu", "can">>), (<<"jiang", "jin">>), (<<"jie", "suan">>)>>

\* handleListCategories that gives a user without categories a first one
handleListCategoriesSeedDefaults(db, failing, user) ==
    LET got == GetCategoriesByType(db, failing, user, Collation)
        c1 == <<"GetCategoriesByType">>
        incomeList == IF Income \in DOMAIN got.byType THEN got.byType[Income] ELSE <<>>
        expenseList == IF Expense \in DOMAIN got.byType THEN got.byType[Expense] ELSE <<>>
    IN  IF got.err # "nil" THEN {Out(MsgListFailed, db, c1, TRUE)}
        ELSE IF Len(incomeList) = 0 /\ Len(expenseList) = 0
        THEN {Out(MsgNoCategories, AddCategory(db, FALSE, user, Collation[1], Expense).db, c1, FALSE)}
        ELSE {Out(ListHeader
                    \o (IF Len(incomeList) > 0
                        THEN IncomeListTitle \o ListLines(incomeList) ELSE <<>>)
                    \o (IF Len(expenseList) > 0
                        THEN ExpenseListTitle \o ListLines(expenseList) ELSE <<>>),
                  db, c1, FALSE)}

handleListCategories(db, failing, user) ==
    LET got == GetCategoriesByType(db, failing, user, Collation)
        c1 == <<"GetCategoriesByType">>
        incomeList == IF Income \in DOMAIN got.byType THEN got.byType[Income] ELSE <<>>
        expenseList == IF Expense \in DOMAIN got.byType THEN got.byType[Expense] ELSE <<>>
    IN  IF got.err # "nil" THEN {Out(MsgListFailed, db, c1, TRUE)}
        ELSE IF Len(incomeList) = 0 /\ Len(expenseList) = 0
        THEN {Out(MsgNoCategories, db, c1, FALSE)}
        ELSE {Out(ListHeader
                    \o (IF Len(incomeList) > 0
                        THEN IncomeListTitle \o ListLines(incomeList) ELSE <<>>)
                    \o (IF Len(expenseList) > 0
                        THEN ExpenseListTitle \o ListLines(expenseList) ELSE <<>>),
                  db, c1, FALSE)}

\* handleQuickTransaction that looks the category up before it parses the amount
handleQuickTransactionLookupFirst(db, failing, user, categoryName, amountStr) ==
    LET amount == Atoi(amountStr)
        cat == GetCategoryIdAndType(db, failing, user, categoryName)
        c1 == <<"GetCategoryIdAndType">>
    IN  IF cat.err # "nil"
        THEN {Final(Out(MsgCategoryMissing, db, c1, cat.err = "conn"))}
        ELSE IF amount.err THEN {Final(Out(MsgAmountFormat, db, c1, FALSE))}
        ELSE {Cont([NoLocals EXCEPT !.handler = "handleQuickTransaction", !.user = user,
                                    !.name = categoryName, !.typeName = cat.type,
                                    !.categoryID = cat.id, !.amount = amount.val])}

handleQuickTransaction(db, failing, user, categoryName, amountStr) ==
    LET amount == Atoi(amountStr)
        cat == GetCategoryIdAndType(db, failing, user, categoryName)
        c1 == <<"GetCategoryIdAndType">>
    IN  IF amount.err THEN {Final(Out(MsgAmountFormat, db, <<>>, FALSE))}
        ELSE IF cat.err # "nil"
        THEN {Final(Out(MsgCategoryMissing, db, c1, cat.err = "conn"))}
        ELSE {Cont([NoLocals EXCEPT !.handler = "handleQuickTransaction", !.user = user,
                                    !.name = categoryName, !.typeName = cat.type,
                                    !.categoryID = cat.id, !.amount = amount.val])}

\* handleQuickTransactionThen that stores an expense as a negative amount
handleQuickTransactionThenSigned(db, failing, at, k) ==
    LET stored == IF k.typeName = Income THEN k.amount ELSE 0 - k.amount
        ins == AddTransaction(db, failing, k.user, k.categoryID, k.typeName, stored, at)
        c2 == <<"GetCategoryIdAndType", "AddTransaction">>
    IN  IF ins.err # "nil" THEN {Out(MsgRecordFailed, db, c2, ins.err = "conn")}
        ELSE {Out(MsgRecorded(k.typeName, k.amount, k.name), ins.db, c2, FALSE)}

handleQuickTransactionThen(db, failing, at, k) ==
    LET ins == AddTransaction(db, failing, k.user, k.categoryID, k.typeName, k.amount, at)
        c2 == <<"GetCategoryIdAndType", "AddTransaction">>
    IN  IF ins.err # "nil" THEN {Out(MsgRecordFailed, db, c2, ins.err = "conn")}
        ELSE {Out(MsgRecorded(k.typeName, k.amount, k.name), ins.db, c2, FALSE)}

handleUpdateTransaction(db, failing, user, category, oldAmountStr, newAmountStr) ==
    LET oldAmount == Atoi(oldAmountStr)
        newAmount == Atoi(newAmountStr)
        c1 == <<"FindTransactionID">>
    IN  IF oldAmount.err \/ newAmount.err
        THEN {Final(Out(MsgAmountFormatDigits, db, <<>>, FALSE))}
        ELSE {IF found.err # "nil"
              THEN Final(Out(MsgNoMatchingRecord, db, c1, found.err = "conn"))
              ELSE Cont([NoLocals EXCEPT !.handler = "handleUpdateTransaction",
                                         !.user = user, !.name = category,
                                         !.amount = oldAmount.val,
                                         !.newAmount = newAmount.val,
                                         !.transactionID = found.id])
              : found \in FindTransactionID(db, failing, user, category, oldAmount.val)}

handleUpdateTransactionThen(db, failing, k) ==
    LET upd == UpdateTransaction(db, failing, k.transactionID, k.newAmount)
        c2 == <<"FindTransactionID", "UpdateTransaction">>
    IN  IF upd.err # "nil" THEN {Out(MsgUpdateFailed, db, c2, upd.err = "conn")}
        ELSE {Out(MsgTransactionUpdated(k.name, k.amount, k.newAmount), upd.db, c2, FALSE)}

handleDeleteTransaction(db, failing, user, category, amountStr) ==
    LET amount == Atoi(amountStr)
        c1 == <<"FindTransactionID">>
    IN  IF amount.err THEN {Final(Out(MsgAmountFormatDigits, db, <<>>, FALSE))}
        ELSE {IF found.err # "nil"
              THEN Final(Out(MsgNoMatchingRecord, db, c1, found.err = "conn"))
              ELSE Cont([NoLocals EXCEPT !.handler = "handleDeleteTransaction",
                                         !.user = user, !.name = category,
                                         !.amount = amount.val,
                                         !.transactionID = found.id])
              : found \in FindTransactionID(db, failing, user, category, amount.val)}

handleDeleteTransactionThen(db, failing, k) ==
    LET del == DeleteTransaction(db, failing, k.transactionID)
        c2 == <<"FindTransactionID", "DeleteTransaction">>
    IN  IF del.err # "nil" THEN {Out(MsgDeleteFailed, db, c2, TRUE)}
        ELSE {Out(MsgTransactionDeleted(k.name, k.amount), del.db, c2, FALSE)}

\* the orders in which a range over a map with key set S may visit it
Orders(S) ==
    {p \in [1..Cardinality(S) -> S] : \A i, j \in 1..Cardinality(S) : p[i] = p[j] => i = j}

RECURSIVE DetailLines(_, _)
DetailLines(order, totals) ==
    IF order = <<>> THEN <<>>
    ELSE MsgDetailLine(Head(order), totals[Head(order)]) \o DetailLines(Tail(order), totals)

DetailSection(title, order, totals) ==
    IF order = <<>> THEN <<>> ELSE title \o DetailLines(order, totals) \o <<"\n">>

\* IncomeCategories whose heuristic puts a zero total under income
IncomeCategoriesZeroIncome(totals, info) ==
    {cat \in DOMAIN totals :
        IF cat \in DOMAIN info THEN info[cat] = Income ELSE totals[cat] >= 0}

\* the categories of the income detail section: by the type the category
\* store gives for the name, and by the sign of the total when it gives none
IncomeCategories(totals, info) ==
    {cat \in DOMAIN totals :
        IF cat \in DOMAIN info THEN info[cat] = Income ELSE totals[cat] > 0}

\* the report for one result of GetMonthlySummary and one result of
\* GetCategoriesInfo (an empty map when that call failed)
SummaryReports(targetMonth, summary, info) ==
    LET totals == summary.CategoryTotals
        incomeCategories == IncomeCategories(totals, info)
        expenseCategories == (DOMAIN totals) \ incomeCategories
    IN  {MsgSummaryHeader(Year(targetMonth), Month(targetMonth),
                          summary.IncomeTotal, summary.ExpenseTotal)
           \o DetailSection(IncomeDetailTitle, io, totals)
           \o DetailSection(ExpenseDetailTitle, eo, totals)
           \o MsgNet(summary.IncomeTotal - summary.ExpenseTotal)
         : io \in Orders(incomeCategories), eo \in Orders(expenseCategories)}

\* handleMonthlySummary that does not test the range of the month
handleMonthlySummaryNoRange(db, failing, at, user, tokens) ==
    LET year == Atoi(TrimSuffix(tokens[2], YearSuffix))
        month == Atoi(TrimSuffix(tokens[3], MonthSuffix))
        badFormat == Len(tokens) = 3 /\ (year.err \/ month.err)
        targetMonth == IF Len(tokens) = 3 THEN Date(year.val, month.val) ELSE at
        c1 == <<"GetMonthlySummary">>
    IN  IF badFormat THEN {Final(Out(MsgSummaryFormat, db, <<>>, FALSE))}
        ELSE {IF summary.err # "nil"
              THEN Final(Out(MsgSummaryFailed, db, c1, TRUE))
              ELSE Cont([NoLocals EXCEPT !.handler = "handleMonthlySummary", !.user = user,
                                         !.targetMonth = targetMonth, !.summary = summary])
              : summary \in GetMonthlySummary(db, failing, user, targetMonth)}

handleMonthlySummary(db, failing, at, user, tokens) ==
    LET yearStr == TrimSuffix(tokens[2], YearSuffix)
        monthStr == TrimSuffix(tokens[3], MonthSuffix)
        year == Atoi(yearStr)
        month == Atoi(monthStr)
        badFormat == Len(tokens) = 3
                       /\ (year.err \/ month.err \/ month.val < 1 \/ month.val > MonthsPerYear)
        targetMonth == IF Len(tokens) = 3 THEN Date(year.val, month.val) ELSE at
        c1 == <<"GetMonthlySummary">>
    IN  IF badFormat THEN {Final(Out(MsgSummaryFormat, db, <<>>, FALSE))}
        ELSE {IF summary.err # "nil"
              THEN Final(Out(MsgSummaryFailed, db, c1, TRUE))
              ELSE Cont([NoLocals EXCEPT !.handler = "handleMonthlySummary", !.user = user,
                                         !.targetMonth = targetMonth, !.summary = summary])
              : summary \in GetMonthlySummary(db, failing, user, targetMonth)}

\* handleMonthlySummaryThen that gives up with no text when the category
\* types cannot be read
handleMonthlySummaryThenPropagate(db, failing, k) ==
    LET got == GetCategoriesInfo(db, failing, k.user)
        c2 == <<"GetMonthlySummary", "GetCategoriesInfo">>
    IN  IF got.err # "nil" THEN {Out(<<>>, db, c2, TRUE)}
        ELSE {Out(r, db, c2, FALSE) : r \in SummaryReports(k.targetMonth, k.summary, got.info)}

handleMonthlySummaryThen(db, failing, k) ==
    LET got == GetCategoriesInfo(db, failing, k.user)
        c2 == <<"GetMonthlySummary", "GetCategoriesInfo">>
    IN  {Out(r, db, c2, got.err # "nil") : r \in SummaryReports(k.targetMonth, k.summary, got.info)}

(***************************************************************************)
(* HandleMessage: the tokens of the text, then the first case that        *)
(* matches.  Route names the case; Dispatch runs the handler of that case *)
(* through its first store call, Resume runs the rest of it, and          *)
(* HandleMessage does both on one store: failAt is the number of the      *)
(* store call that fails (0: none).                                        *)
(***************************************************************************)
\* Route that tests the two-token quick transaction before the keywords
RouteQuickFirst(tokens) ==
    IF Len(tokens) = 0 THEN "empty"
    ELSE IF Len(tokens) = 2 THEN "handleQuickTransaction"
    ELSE IF tokens[1] = KwAddCategory /\ Len(tokens) >= 3 THEN "handleAddCategory"
    ELSE IF tokens[1] = KwUpdateCategory /\ Len(tokens) = 3 THEN "handleUpdateCategory"
    ELSE IF tokens[1] = KwDeleteCategory /\ Len(tokens) = 2 THEN "handleDeleteCategory"
    ELSE IF tokens[1] = KwListCategories THEN "handleListCategories"
    ELSE IF tokens[1] = KwUpdate /\ Len(tokens) = 4 THEN "handleUpdateTransaction"
    ELSE IF tokens[1] = KwDelete /\ Len(tokens) = 3 THEN "handleDeleteTransaction"
    ELSE IF tokens[1] = KwSummary THEN "handleMonthlySummary"
    ELSE IF tokens[1] = KwHelp THEN "getHelpText"
    ELSE "unrecognized"

\* Route that tests the summary keyword before the two-token quick transaction
RouteSummaryFirst(tokens) ==
    IF Len(tokens) = 0 THEN "empty"
    ELSE IF tokens[1] = KwAddCategory /\ Len(tokens) >= 3 THEN "handleAddCategory"
    ELSE IF tokens[1] = KwUpdateCategory /\ Len(tokens) = 3 THEN "handleUpdateCategory"
    ELSE IF tokens[1] = KwDeleteCategory /\ Len(tokens) = 2 THEN "handleDeleteCategory"
    ELSE IF tokens[1] = KwListCategories THEN "handleListCategories"
    ELSE IF tokens[1] = KwSummary THEN "handleMonthlySummary"
    ELSE IF Len(tokens) = 2 THEN "handleQuickTransaction"
    ELSE IF tokens[1] = KwUpdate /\ Len(tokens) = 4 THEN "handleUpdateTransaction"
    ELSE IF tokens[1] = KwDelete /\ Len(tokens) = 3 THEN "handleDeleteTransaction"
    ELSE IF tokens[1] = KwHelp THEN "getHelpText"
    ELSE "unrecognized"

Route(tokens) ==
    IF Len(tokens) = 0 THEN "empty"
    ELSE IF tokens[1] = KwAddCategory /\ Len(tokens) >= 3 THEN "handleAddCategory"
    ELSE IF tokens[1] = KwUpdateCategory /\ Len(tokens) = 3 THEN "handleUpdateCategory"
    ELSE IF tokens[1] = KwDeleteCategory /\ Len(tokens) = 2 THEN "handleDeleteCategory"
    ELSE IF tokens[1] = KwListCategories THEN "handleListCategories"
    ELSE IF Len(tokens) = 2 THEN "handleQuickTransaction"
    ELSE IF tokens[1] = KwUpdate /\ Len(tokens) = 4 THEN "handleUpdateTransaction"
    ELSE IF tokens[1] = KwDelete /\ Len(tokens) = 3 THEN "handleDeleteTransaction"
    ELSE IF tokens[1] = KwSummary THEN "handleMonthlySummary"
    ELSE IF tokens[1] = KwHelp THEN "getHelpText"
    ELSE "unrecognized"

Dispatch(db, failing, at, user, txt) ==
    LET tokens == Fields(txt)
        case == Route(tokens)
    IN  CASE case = "empty" -> {Final(Out(MsgEmptyInput, db, <<>>, FALSE))}
          [] case = "handleAddCategory" ->
                handleAddCategory(db, failing, user, tokens[2], tokens[3])
          [] case = "handleUpdateCategory" ->
                {Final(o) : o \in handleUpdateCategory(db, failing, user, tokens[2], tokens[3])}
          [] case = "handleDeleteCategory" ->
                {Final(o) : o \in handleDeleteCategory(db, failing, user, tokens[2])}
          [] case = "handleListCategories" ->
                {Final(o) : o \in handleListCategories(db, failing, user)}
          [] case = "handleQuickTransaction" ->
                handleQuickTransaction(db, failing, user, tokens[1], tokens[2])
          [] case = "handleUpdateTransaction" ->
                handleUpdateTransaction(db, failing, user, tokens[2], tokens[3], tokens[4])
          [] case = "handleDeleteTransaction" ->
                handleDeleteTransaction(db, failing, user, tokens[2], tokens[3])
          [] case = "handleMonthlySummary" ->
                handleMonthlySummary(db, failing, at, user, tokens)
          [] case = "getHelpText" -> {Final(Out(getHelpText, db, <<>>, FALSE))}
          [] OTHER -> {Final(Out(MsgUnrecognized, db, <<>>, FALSE))}

Resume(db, failing, at, k) ==
    CASE k.handler = "handleAddCategory" -> handleAddCategoryThen(db, failing, k)
      [] k.handler = "handleQuickTransaction" -> handleQuickTransactionThen(db, failing, at, k)
      [] k.handler = "handleUpdateTransaction" -> handleUpdateTransactionThen(db, failing, k)
      [] k.handler = "handleDeleteTransaction" -> handleDeleteTransactionThen(db, failing, k)
      [] k.handler = "handleMonthlySummary" -> handleMonthlySummaryThen(db, failing, k)

HandleMessage(db, failAt, at, user, txt) ==
    UNION {IF r.done THEN {r.out} ELSE Resume(db, failAt = 2, at, r.k)
           : r \in Dispatch(db, failAt = 1, at, user, txt)}

(***************************************************************************)
(* The inputs: the users and the message texts the model sends.           *)
(***************************************************************************)
Users == {"u1", "u2"}

Lunch == <<"wu", "can">>                                  \* 午餐
Bonus == <<"jiang", "jin">>                               \* 獎金
Names == {Lunch, Bonus}

Other == <<"qi", "ta">>                                   \* 其他
TypeTokens == {Income, Expense, Other}

A150 == <<"1", "5", "0">>
A200 == <<"2", "0", "0">>
Minus5 == <<"-", "5">>
Zero == <<"0">>

Abc == <<"a", "b", "c">>

RECURSIVE Join(_)
Join(tokens) ==
    IF tokens = <<>> THEN <<>>
    ELSE IF Len(tokens) = 1 THEN tokens[1]
    ELSE tokens[1] \o <<" ">> \o Join(Tail(tokens))

ThisYear == Itoa(EpochYear) \o YearSuffix
NextYear == Itoa(EpochYear + 1) \o YearSuffix

CategoryTexts ==
    {Join(<<KwAddCategory, ty, n>>) : ty \in {Income, Expense}, n \in Names}
    \cup {Join(<<KwAddCategory, Other, Bonus>>)}
    \cup {Join(<<KwUpdateCategory, o, n>>) : o \in Names, n \in Names}
    \cup {Join(<<KwDeleteCategory, n>>) : n \in Names}
    \cup {Join(<<KwListCategories>>)}

TransactionTexts ==
    {Join(<<n, a>>) : n \in Names, a \in {A150, A200, Abc}}
    \cup {Join(<<KwUpdate, n, a[1], a[2]>>) : n \in Names, a \in {<<A150, A200>>, <<A200, A150>>}}
    \cup {Join(<<KwUpdate, Lunch, Abc, A200>>), Join(<<KwUpdate, Lunch, A150, Abc>>)}
    \cup {Join(<<KwDelete, n, a>>) : n \in Names, a \in {A150, A200}}
    \cup {Join(<<KwDelete, Lunch, Abc>>)}

SummaryTexts ==
    {Join(<<KwSummary>>),
     Join(<<KwSummary, ThisYear, <<"1", "2", "yue">> >>),
     Join(<<KwSummary, NextYear, <<"1", "yue">> >>),
     Join(<<KwSummary, Itoa(EpochYear + 1), <<"1">> >>),
     Join(<<KwSummary, ThisYear, <<"1", "3", "yue">> >>),
     Join(<<KwSummary, ThisYear, <<"0", "yue">> >>),
     Join(<<KwSummary, <<"x", "nian">>, <<"1", "yue">> >>),
     Join(<<KwSummary, ThisYear, <<"1", "2", "yue">>, <<"x">> >>)}

OtherTexts ==
    {<<>>, <<" ">>, <<" ", "\t", "\n">>,
     Join(<<KwHelp>>), Join(<<KwHelp, <<"x">>, <<"y">> >>),
     Join(<<KwListCategories, <<"x">> >>),
     Join(<<KwAddCategory, Income, Bonus, <<"x">> >>),
     Join(<<KwAddCategory, Income>>),
     Join(<<KwSummary, <<"5">> >>),
     Join(<<KwUpdateCategory, Lunch>>),
     Join(<<KwUpdate, Lunch, A150>>),
     Join(<<KwDelete, Lunch, A150, A200>>),
     Join(<<Abc>>),
     <<" ", " ">> \o Join(<<Lunch, <<"\t">>, A150>>) \o <<"\n">>}

Texts == CategoryTexts \cup TransactionTexts \cup SummaryTexts \cup OtherTexts

\* the second user sends the commands that touch one category name
SecondUserTexts ==
    {Join(<<KwAddCategory, Income, Lunch>>), Join(<<KwDeleteCategory, Lunch>>),
     Join(<<KwListCategories>>), Join(<<Lunch, A150>>), Join(<<KwDelete, Lunch, A150>>),
     Join(<<KwUpdate, Lunch, A150, A200>>), Join(<<KwSummary>>)}

TextsOf(user) == IF user = "u1" THEN Texts ELSE SecondUserTexts

\* the most store calls one command makes
MaxStoreCalls == 2

(***************************************************************************)
(* State.  DB is the store and now the clock.  phase, userID, text, fail, *)
(* reply and calls describe the request of the sequential specifications: *)
(* who sent what, which store call failed, what was replied and which     *)
(* store calls were made.  procs holds the requests in flight of the      *)
(* concurrent specification.                                               *)
(***************************************************************************)
Procs == {1, 2}

IdleProc ==
    [pc |-> "idle", user |-> "", text |-> <<>>, k |-> NoLocals, reply |-> <<>>,
     failed |-> FALSE]

Init ==
    /\ DB = EmptyDB
    /\ now = StartTick
    /\ phase = "idle"
    /\ userID = ""
    /\ text = <<>>
    /\ fail = 0
    /\ reply = <<>>
    /\ calls = <<>>
    /\ procs = [p \in Procs |-> IdleProc]

WithinBounds(db) ==
    /\ db.categories_id_seq <= MaxCategoryID + 1
    /\ db.transactions_id_seq <= MaxTransactionID + 1

(***************************************************************************)
(* The sequential specification: one command at a time, each handled      *)
(* whole (WebhookHandler: read the message, HandleMessage, write the      *)
(* reply).                                                                 *)
(***************************************************************************)
\* a message arrives and HandleMessage returns its reply
Handle(user, txt, failAt) ==
    /\ phase = "idle"
    /\ \E o \in HandleMessage(DB, failAt, now, user, txt) :
          /\ failAt = 0 \/ o.failed
          /\ WithinBounds(o.db)
          /\ DB' = o.db
          /\ reply' = o.reply
          /\ calls' = o.calls
    /\ phase' = "replied"
    /\ userID' = user
    /\ text' = txt
    /\ fail' = failAt
    /\ UNCHANGED <<now, procs>>

\* the reply is written back and the request ends
Respond ==
    /\ phase = "replied"
    /\ phase' = "idle"
    /\ userID' = ""
    /\ text' = <<>>
    /\ fail' = 0
    /\ reply' = <<>>
    /\ calls' = <<>>
    /\ UNCHANGED <<DB, now, procs>>

Next ==
    \/ \E user \in Users, failAt \in 0..MaxStoreCalls :
          \E txt \in TextsOf(user) : Handle(user, txt, failAt)
    \/ Respond

Spec == Init /\ [][Next]_vars

(***************************************************************************)
(* The sequential specification with a clock: time passes between the     *)
(* requests of one user.                                                   *)
(***************************************************************************)
ClockTexts ==
    {Join(<<KwAddCategory, Income, Bonus>>), Join(<<KwAddCategory, Expense, Lunch>>),
     Join(<<KwDeleteCategory, Bonus>>),
     Join(<<Bonus, A150>>), Join(<<Lunch, A200>>), Join(<<KwDelete, Lunch, A200>>),
     Join(<<Lunch, Minus5>>), Join(<<Bonus, Zero>>),
     Join(<<KwAddCategory, Expense, KwSummary>>), Join(<<KwSummary, A150>>),
     Join(<<KwSummary, ThisYear \o <<"1", "2", "yue">> >>),
     Join(<<KwSummary, NextYear, <<"1", "yue">>, <<"x">> >>),
     Join(<<KwSummary>>),
     Join(<<KwSummary, ThisYear, <<"1", "2", "yue">> >>),
     Join(<<KwSummary, NextYear, <<"1", "yue">> >>),
     Join(<<KwSummary, NextYear, <<"2", "yue">> >>)}

Tick ==
    /\ phase = "idle"
    /\ now < StartTick + MaxTicks
    /\ now' = now + 1
    /\ UNCHANGED <<DB, phase, userID, text, fail, reply, calls, procs>>

NextClock ==
    \/ \E failAt \in 0..MaxStoreCalls : \E txt \in ClockTexts : Handle("u1", txt, failAt)
    \/ Respond
    \/ Tick

SpecClock == Init /\ [][NextClock]_vars

(***************************************************************************)
(* The concurrent specification: the requests in flight run their         *)
(* handlers one store call at a time, interleaved; a store call is        *)
(* atomic (a single SQL statement).                                        *)
(***************************************************************************)
ConcTexts ==
    {Join(<<KwAddCategory, Income, Lunch>>), Join(<<KwAddCategory, Expense, Lunch>>),
     Join(<<KwAddCategory, Income, Bonus>>),
     Join(<<KwUpdateCategory, Lunch, Bonus>>), Join(<<KwUpdateCategory, Bonus, Lunch>>),
     Join(<<KwDeleteCategory, Lunch>>)}

\* request p arrives and runs through its first store call
Begin(p, user, txt, failing) ==
    /\ procs[p].pc = "idle"
    /\ \E r \in Dispatch(DB, failing, now, user, txt) :
          /\ failing => r.done /\ r.out.failed
          /\ IF r.done
             THEN /\ WithinBounds(r.out.db)
                  /\ DB' = r.out.db
                  /\ procs' = [procs EXCEPT ![p] = [pc |-> "done", user |-> user, text |-> txt,
                                                    k |-> NoLocals, reply |-> r.out.reply,
                                                    failed |-> r.out.failed]]
             ELSE /\ DB' = DB
                  /\ procs' = [procs EXCEPT ![p] = [pc |-> "called", user |-> user,
                                                    text |-> txt, k |-> r.k, reply |-> <<>>,
                                                    failed |-> FALSE]]
    /\ UNCHANGED <<now, phase, userID, text, fail, reply, calls>>

\* request p makes its second store call and returns
Continue(p, failing) ==
    /\ procs[p].pc = "called"
    /\ \E o \in Resume(DB, failing, now, procs[p].k) :
          /\ failing => o.failed
          /\ WithinBounds(o.db)
          /\ DB' = o.db
          /\ procs' = [procs EXCEPT ![p].pc = "done", ![p].reply = o.reply,
                                    ![p].failed = o.failed]
    /\ UNCHANGED <<now, phase, userID, text, fail, reply, calls>>

\* the reply of request p is written back
Return(p) ==
    /\ procs[p].pc = "done"
    /\ procs' = [procs EXCEPT ![p] = IdleProc]
    /\ UNCHANGED <<DB, now, phase, userID, text, fail, reply, calls>>

NextConc ==
    \/ \E p \in Procs, user \in Users, failing \in BOOLEAN :
          \E txt \in ConcTexts : Begin(p, user, txt, failing)
    \/ \E p \in Procs, failing \in BOOLEAN : Continue(p, failing)
    \/ \E p \in Procs : Return(p)

SpecConc == Init /\ [][NextConc]_vars

(***************************************************************************)
(* The concurrent specification of the transaction commands: requests     *)
(* that record, update and delete transactions and read the summary,      *)
(* interleaved with requests that add, rename and delete the category.    *)
(***************************************************************************)
RaceTexts ==
    {Join(<<KwAddCategory, Expense, Lunch>>), Join(<<KwAddCategory, Income, Lunch>>),
     Join(<<KwUpdateCategory, Lunch, Bonus>>), Join(<<KwDeleteCategory, Lunch>>),
     Join(<<Lunch, A150>>),
     Join(<<KwUpdate, Lunch, A150, A200>>), Join(<<KwDelete, Lunch, A150>>),
     Join(<<KwSummary>>)}

\* the second user adds the same category name and records the same amount
RaceTextsOf(user) ==
    IF user = "u1" THEN RaceTexts
    ELSE {Join(<<KwAddCategory, Income, Lunch>>), Join(<<Lunch, A150>>)}

NextRace ==
    \/ \E p \in Procs, user \in Users, failing \in BOOLEAN :
          \E txt \in RaceTextsOf(user) : Begin(p, user, txt, failing)
    \/ \E p \in Procs, failing \in BOOLEAN : Continue(p, failing)
    \/ \E p \in Procs : Return(p)

SpecRace == Init /\ [][NextRace]_vars

(***************************************************************************)
(* Properties.                                                             *)
(***************************************************************************)
\* the tokens of the request just answered
lastTokens == Fields(text)

\* a request has just been answered by the case named
Answered(case) == phase = "replied" /\ Route(lastTokens) = case

\* the step on which a request routed to the case named is answered
Answering(case) == phase = "idle" /\ phase' = "replied" /\ Route(Fields(text')) = case

\* a decimal integer as a user writes one: an optional sign, then digits
IsIntegerText(tok) ==
    LET body == IF tok # <<>> /\ tok[1] \in {"+", "-"} THEN SubSeq(tok, 2, Len(tok)) ELSE tok
    IN  /\ Len(body) >= 1
        /\ \A i \in 1..Len(body) : body[i] \in {"0", "1", "2", "3", "4", "5", "6", "7", "8", "9"}

\* C1: once an AddCategory command for (U, N) has replied with the success
\* message, a later AddCategory command for (U, N) with any type token
\* replies "already exists" and leaves the category store unchanged.
\* Stated on the state right after the success reply, for the next command.
C1_RepeatedAddSaysExists ==
    \A n \in Names :
        (phase = "replied" /\ reply = MsgCategoryAdded(n))
        => \A ty \in TypeTokens :
              \A o \in HandleMessage(DB, 0, now, userID, Join(<<KwAddCategory, ty, n>>)) :
                 o.reply = MsgCategoryExists(n) /\ o.db.categories = DB.categories

\* C2: in every reachable store state, under any interleaving of
\* AddCategory, UpdateCategory and DeleteCategory commands of any users, no
\* two category records share the same (user_id, name).
C2_UniqueUserName ==
    \A c, d \in DB.categories : (c.user_id = d.user_id /\ c.name = d.name) => c = d

\* C2 witness: two AddCategory requests of one user for one name and type
\* both passed the existence check; one inserted, the other's insert failed.
C2_RaceWitness ==
    /\ procs[1].pc = "done" /\ procs[2].pc = "done"
    /\ procs[1].user = procs[2].user /\ procs[1].text = procs[2].text
    /\ procs[1].reply = MsgCategoryAdded(Lunch)
    /\ procs[2].reply = MsgAddFailed /\ ~procs[2].failed
    /\ Cardinality({c \in DB.categories : c.user_id = procs[1].user /\ c.name = Lunch}) = 1

\* C3: every stored category has type 收入 or 支出; an AddCategory command
\* with any other type token never creates a category.
C3_TypesCanonical == \A c \in DB.categories : c.type \in {Income, Expense}

\* C4: frozen type.  An UpdateCategory command changes no transaction (type,
\* amount and category reference stay), and when it confirms the rename the
\* category that had the old name now has the new one, with its id and type.
C4_RenameKeepsTypes ==
    [][Answering("handleUpdateCategory")
         => /\ DB'.transactions = DB.transactions
            /\ reply' = MsgCategoryUpdated(Fields(text')[3])
                 => \E c \in DB.categories :
                       /\ c.user_id = userID' /\ c.name = Fields(text')[2]
                       /\ [c EXCEPT !.name = Fields(text')[3]] \in DB'.categories
                       /\ DB'.categories \ {[c EXCEPT !.name = Fields(text')[3]]}
                            = DB.categories \ {c}]_vars

\* C4 witness: a category with a transaction recorded under it has just
\* been renamed, and the transaction still carries the category's type.
C4_RenamedWithTransaction ==
    /\ Answered("handleUpdateCategory")
    /\ lastTokens[2] # lastTokens[3]
    /\ reply = MsgCategoryUpdated(lastTokens[3])
    /\ \E t \in DB.transactions, c \in DB.categories :
          /\ t.category_id = c.id /\ c.user_id = userID /\ c.name = lastTokens[3]
          /\ t.type = c.type

\* C5: a QuickTransaction command whose amount token is not an integer
\* replies 金額格式錯誤, changes nothing in the store and makes no store call
\* (the amount is validated before the category is looked up).
C5_BadAmountRejected ==
    [][(Answering("handleQuickTransaction") /\ ~IsIntegerText(Fields(text')[2]))
         => (reply' = MsgAmountFormat /\ DB' = DB /\ calls' = <<>>)]_vars

\* C5 witness: the command named a category the user has, with a bad amount.
C5_BadAmountForExistingCategory ==
    /\ Answered("handleQuickTransaction")
    /\ lastTokens[2] = Abc
    /\ reply = MsgAmountFormat
    /\ \E c \in DB.categories : c.user_id = userID /\ c.name = lastTokens[1]

\* the order of the patterns as the dispatch is described: keyword of the
\* first token (<<>>: any), fewest tokens, most tokens (0: no limit)
ClaimedOrder ==
    << [kw |-> KwAddCategory, lo |-> 3, hi |-> 0, h |-> "handleAddCategory"],
       [kw |-> KwUpdateCategory, lo |-> 3, hi |-> 3, h |-> "handleUpdateCategory"],
       [kw |-> KwDeleteCategory, lo |-> 2, hi |-> 2, h |-> "handleDeleteCategory"],
       [kw |-> KwListCategories, lo |-> 1, hi |-> 0, h |-> "handleListCategories"],
       [kw |-> <<>>, lo |-> 2, hi |-> 2, h |-> "handleQuickTransaction"],
       [kw |-> KwUpdate, lo |-> 4, hi |-> 4, h |-> "handleUpdateTransaction"],
       [kw |-> KwDelete, lo |-> 3, hi |-> 3, h |-> "handleDeleteTransaction"],
       [kw |-> KwSummary, lo |-> 1, hi |-> 0, h |-> "handleMonthlySummary"],
       [kw |-> KwHelp, lo |-> 1, hi |-> 0, h |-> "getHelpText"] >>

Matches(p, toks) ==
    /\ p.kw = <<>> \/ toks[1] = p.kw
    /\ Len(toks) >= p.lo
    /\ p.hi = 0 \/ Len(toks) <= p.hi

FirstMatch(toks) ==
    LET hits == {i \in 1..Len(ClaimedOrder) : Matches(ClaimedOrder[i], toks)}
    IN  IF toks = <<>> THEN "empty"
        ELSE IF hits = {} THEN "unrecognized"
        ELSE ClaimedOrder[CHOOSE i \in hits : \A j \in hits : i <= j].h

\* what the answered request shows of the handler that ran: the store
\* calls it made, or the reply only it gives before any store call
Ran(h) ==
    CASE h = "empty" -> reply = MsgEmptyInput /\ calls = <<>>
      [] h = "handleAddCategory" -> calls # <<>> /\ calls[1] = "CheckCategoryExists"
      [] h = "handleUpdateCategory" -> calls = <<"UpdateCategory">>
      [] h = "handleDeleteCategory" -> calls = <<"DeleteCategory">>
      [] h = "handleListCategories" -> calls = <<"GetCategoriesByType">>
      [] h = "handleQuickTransaction" ->
            \/ reply = MsgAmountFormat /\ calls = <<>>
            \/ calls # <<>> /\ calls[1] = "GetCategoryIdAndType"
      [] h = "handleUpdateTransaction" ->
            \/ reply = MsgAmountFormatDigits /\ calls = <<>>
            \/ calls = <<"FindTransactionID">>
            \/ calls = <<"FindTransactionID", "UpdateTransaction">>
      [] h = "handleDeleteTransaction" ->
            \/ reply = MsgAmountFormatDigits /\ calls = <<>>
            \/ calls = <<"FindTransactionID">>
            \/ calls = <<"FindTransactionID", "DeleteTransaction">>
      [] h = "handleMonthlySummary" ->
            \/ reply = MsgSummaryFormat /\ calls = <<>>
            \/ calls # <<>> /\ calls[1] = "GetMonthlySummary"
      [] h = "getHelpText" -> reply = getHelpText /\ calls = <<>>
      [] OTHER -> reply = MsgUnrecognized /\ calls = <<>>

\* C6: first-match dispatch.  Every answered request was handled by the
\* first pattern of the fixed order that its tokens match: an empty token
\* list gets the empty-input reply, and a text no pattern matches gets the
\* unrecognized-command reply, both without a store call.
C6_FirstMatchDispatch ==
    phase = "replied"
    => /\ Route(lastTokens) = FirstMatch(lastTokens)
       /\ Ran(FirstMatch(lastTokens))

\* C6 witness: a two-token text with the DeleteCategory keyword went to
\* DeleteCategory, which comes before the two-token QuickTransaction.
C6_DeleteCategoryBeforeQuick ==
    /\ phase = "replied"
    /\ Len(lastTokens) = 2 /\ lastTokens[1] = KwDeleteCategory
    /\ calls = <<"DeleteCategory">>

\* C7: every request gets exactly one non-empty reply, for every user,
\* text and store state, whichever store call of the command fails.
C7_AlwaysOneReply ==
    /\ phase = "replied" => reply # <<>>
    /\ phase = "idle"
       => \A u \in Users, f \in 0..MaxStoreCalls :
             \A txt \in TextsOf(u) :
                LET outs == HandleMessage(DB, f, now, u, txt)
                IN  outs # {} /\ \A o \in outs : o.reply # <<>>

\* C7 witness: the category-type query of a summary failed after the
\* totals were read, and the request was still answered with a report.
C7_SummaryAnsweredDespiteFailure ==
    /\ Answered("handleMonthlySummary")
    /\ fail = 2
    /\ calls = <<"GetMonthlySummary", "GetCategoriesInfo">>
    /\ reply # <<>>

\* C8: whenever a store call of a command fails with a connection or query
\* failure, the reply is a "try again later" message.
C8_StoreFailureSaysTryLater ==
    (phase = "replied" /\ fail # 0) => \E i \in 1..Len(reply) : reply[i] = TryLater

\* C9: update round trip.  Where category n of user u has no transaction of
\* amount 150 or 200, recording 150 under n and then updating 150 to 200 is
\* confirmed; after it a delete or an update by (n, 200) finds the record,
\* and a delete or an update by (n, 150) replies "no matching record".
C9_UpdateRoundTrip ==
    phase = "idle"
    => \A u \in Users, n \in Names :
          (MatchingTransactions(DB, u, n, 150) = {} /\ MatchingTransactions(DB, u, n, 200) = {})
          => \A o1 \in HandleMessage(DB, 0, now, u, Join(<<n, A150>>)) :
                (\E ty \in TypeTokens : o1.reply = MsgRecorded(ty, 150, n))
                => LET upd == HandleMessage(o1.db, 0, now, u, Join(<<KwUpdate, n, A150, A200>>))
                   IN  /\ upd # {}
                       /\ \A o2 \in upd :
                             /\ o2.reply = MsgTransactionUpdated(n, 150, 200)
                             /\ \A o3 \in HandleMessage(o2.db, 0, now, u,
                                                        Join(<<KwDelete, n, A200>>)) :
                                   o3.reply = MsgTransactionDeleted(n, 200)
                             /\ \A o3 \in HandleMessage(o2.db, 0, now, u,
                                                        Join(<<KwUpdate, n, A200, A150>>)) :
                                   o3.reply = MsgTransactionUpdated(n, 200, 150)
                             /\ \A o3 \in HandleMessage(o2.db, 0, now, u,
                                                        Join(<<KwDelete, n, A150>>)) :
                                   o3.reply = MsgNoMatchingRecord /\ o3.db = o2.db
                             /\ \A o3 \in HandleMessage(o2.db, 0, now, u,
                                                        Join(<<KwUpdate, n, A150, A200>>)) :
                                   o3.reply = MsgNoMatchingRecord /\ o3.db = o2.db

\* C9 witness: the only transaction under 午餐, recorded as 150, has just
\* been updated to 200.
C9_UpdatedTo200 ==
    /\ Answered("handleUpdateTransaction")
    /\ reply = MsgTransactionUpdated(Lunch, 150, 200)
    /\ MatchingTransactions(DB, userID, Lunch, 200) # {}
    /\ MatchingTransactions(DB, userID, Lunch, 150) = {}

\* C10: deleting twice.  Where exactly one transaction of user u matches
\* (n, a), the first delete command confirms and removes it, and the same
\* command again replies "no matching record" and leaves the store as it is.
C10_SecondDeleteNotFound ==
    phase = "idle"
    => \A u \in Users, n \in Names, a \in {A150, A200} :
          Cardinality(MatchingTransactions(DB, u, n, Atoi(a).val)) = 1
          => LET first == HandleMessage(DB, 0, now, u, Join(<<KwDelete, n, a>>))
             IN  /\ first # {}
                 /\ \A o1 \in first :
                       /\ o1.reply = MsgTransactionDeleted(n, Atoi(a).val)
                       /\ o1.db.transactions
                            = DB.transactions \ MatchingTransactions(DB, u, n, Atoi(a).val)
                       /\ LET second == HandleMessage(o1.db, 0, now, u, Join(<<KwDelete, n, a>>))
                          IN  /\ second # {}
                              /\ \A o2 \in second :
                                    o2.reply = MsgNoMatchingRecord /\ o2.db = o1.db

\* C10 witness: a delete command has just removed the one transaction that
\* matched it.
C10_DeletedTheOnlyMatch ==
    /\ Answered("handleDeleteTransaction")
    /\ reply = MsgTransactionDeleted(Lunch, 150)
    /\ calls = <<"FindTransactionID", "DeleteTransaction">>
    /\ MatchingTransactions(DB, userID, Lunch, 150) = {}

\* a token without the one trailing rune given, when it ends with it
Stripped(tok, rune) ==
    IF tok # <<>> /\ tok[Len(tok)] = rune THEN SubSeq(tok, 1, Len(tok) - 1) ELSE tok

\* the report r opens with the header line of the year and month given
HeaderShows(r, year, month) ==
    LET line == <<"[chart] ">> \o Itoa(year) \o <<"nian">> \o Itoa(month) \o <<"yue", "\n">>
    IN  Len(r) >= Len(line) /\ SubSeq(r, 1, Len(line)) = line

\* C11: a MonthlySummary command with a year and a month replies with the
\* format-error message, making no store call, when the year or the month
\* (without a trailing 年 / 月) is not an integer or the month is outside
\* 1..12; when both are valid and the summary query succeeds, the reply is a
\* report whose header shows that year and that month.
C11_SummaryArguments ==
    (Answered("handleMonthlySummary") /\ Len(lastTokens) = 3)
    => LET y == Stripped(lastTokens[2], "nian")
           m == Stripped(lastTokens[3], "yue")
           valid == /\ IsIntegerText(y) /\ IsIntegerText(m)
                    /\ Atoi(m).val >= 1 /\ Atoi(m).val <= 12
       IN  IF valid
           THEN fail # 1 => HeaderShows(reply, Atoi(y).val, Atoi(m).val)
           ELSE reply = MsgSummaryFormat /\ calls = <<>> /\ fail = 0

\* C11 witness: a report was asked for January of the next year, which is
\* not the month of the clock, and its header shows that month.
C11_ReportOfNamedMonth ==
    /\ Answered("handleMonthlySummary") /\ Len(lastTokens) = 3
    /\ fail = 0
    /\ Year(now) = EpochYear
    /\ HeaderShows(reply, EpochYear + 1, 1)

\* the month, counted from January of EpochYear, that the answered summary
\* command asked for: the one it names, or the month of the clock
AskedMonth ==
    IF Len(lastTokens) = 3
    THEN (Atoi(Stripped(lastTokens[2], "nian")).val - EpochYear) * 12
           + (Atoi(Stripped(lastTokens[3], "yue")).val - 1)
    ELSE now \div TicksPerMonth

\* the transactions of a user whose timestamp lies in the month given
InMonth(user, m) ==
    {t \in DB.transactions : t.user_id = user /\ t.created_at \div TicksPerMonth = m}

\* a summary command has been answered with a report
Reported ==
    /\ Answered("handleMonthlySummary")
    /\ fail # 1
    /\ reply # MsgSummaryFormat

\* the text r contains the text part
Contains(r, part) ==
    \E i \in 1..(Len(r) - Len(part) + 1) : SubSeq(r, i, i + Len(part) - 1) = part

\* C12: the report of a month shows as income the sum of the user's
\* transactions of that month whose type is 收入, as expense the sum of the
\* user's other transactions of that month, and as net the income minus the
\* expense; a category with transactions in the month is shown with their
\* sum (one income transaction of amount a: that category with a).
C12_SummaryTotals ==
    Reported
    => LET mine == InMonth(userID, AskedMonth)
           income == SumAmounts({t \in mine : t.type = Income})
           expense == SumAmounts({t \in mine : t.type # Income})
           header == MsgSummaryHeader(EpochYear + (AskedMonth \div 12), (AskedMonth % 12) + 1,
                                      income, expense)
           net == MsgNet(income - expense)
       IN  /\ Len(reply) >= Len(header) + Len(net)
           /\ SubSeq(reply, 1, Len(header)) = header
           /\ SubSeq(reply, Len(reply) - Len(net) + 1, Len(reply)) = net
           /\ \A c \in DB.categories :
                 LET under == {t \in mine : t.category_id = c.id}
                 IN  under # {} => Contains(reply, MsgDetailLine(c.name, SumAmounts(under)))

\* C12 witness: the report of the current month, asked without arguments,
\* of a user with an income of 150 under 獎金 and an expense of 200 under
\* 午餐 recorded this month.
C12_ReportWithIncomeAndExpense ==
    /\ Reported /\ Len(lastTokens) = 1 /\ fail = 0
    /\ {t.amount : t \in {x \in InMonth(userID, AskedMonth) : x.type = Income}} = {150}
    /\ {t.amount : t \in {x \in InMonth(userID, AskedMonth) : x.type = Expense}} = {200}
    /\ Contains(reply, MsgDetailLine(Bonus, 150))
    /\ Contains(reply, MsgNet(0 - 50))

\* the first instant of a month, and of the month after it
MonthStart(ym) == ((ym[1] - EpochYear) * 12 + (ym[2] - 1)) * TicksPerMonth

NextMonthStart(ym) == IF ym[2] = 12 THEN MonthStart(<<ym[1] + 1, 1>>) ELSE MonthStart(<<ym[1], ym[2] + 1>>)

\* the months the clock can reach, and the month after them
ClockMonths == {<<EpochYear, 12>>} \cup {<<EpochYear + 1, m>> : m \in 1..(MaxTicks + 1)}

SummaryOf(ym) == Join(<<KwSummary, Itoa(ym[1]) \o <<"nian">>, Itoa(ym[2]) \o <<"yue">> >>)

\* the transactions of a user with MonthStart(ym) <= t < NextMonthStart(ym)
InWindow(user, ym) ==
    {t \in DB.transactions :
        /\ t.user_id = user
        /\ MonthStart(ym) <= t.created_at /\ t.created_at < NextMonthStart(ym)}

\* C13: half-open window.  The summary of month M counts exactly the
\* transactions with start(M) <= t < start(M+1), January of the next year
\* following December: its header shows their income and expense sums (0
\* and 0 when there are none), and every transaction is in the window of
\* exactly one month.
C13_HalfOpenWindow ==
    phase = "idle"
    => \A u \in Users :
          /\ \A ym \in ClockMonths :
                LET reports == HandleMessage(DB, 0, now, u, SummaryOf(ym))
                    header == MsgSummaryHeader(ym[1], ym[2],
                                 SumAmounts({t \in InWindow(u, ym) : t.type = Income}),
                                 SumAmounts({t \in InWindow(u, ym) : t.type # Income}))
                IN  /\ reports # {}
                    /\ \A o \in reports :
                          /\ Len(o.reply) >= Len(header)
                          /\ SubSeq(o.reply, 1, Len(header)) = header
          /\ \A t \in DB.transactions :
                t.user_id = u => Cardinality({ym \in ClockMonths : t \in InWindow(u, ym)}) = 1

\* C13 witness: with one transaction at the last instant of December and
\* one at the first instant of January, the summary of December has been
\* answered, showing the December transaction only.
C13_DecemberExcludesJanuary ==
    /\ Reported /\ lastTokens = Fields(SummaryOf(<<EpochYear, 12>>))
    /\ \E t \in DB.transactions : t.created_at = MonthStart(<<EpochYear + 1, 1>>) - 1
    /\ \E t \in DB.transactions : t.created_at = MonthStart(<<EpochYear + 1, 1>>)
    /\ Cardinality(InWindow(userID, <<EpochYear, 12>>)) = 1
    /\ \E t \in InWindow(userID, <<EpochYear, 12>>) :
          \/ HeaderShows(reply, EpochYear, 12)
               /\ Contains(reply, MsgNet(t.amount)) /\ t.type = Income
          \/ HeaderShows(reply, EpochYear, 12)
               /\ Contains(reply, MsgNet(0 - t.amount)) /\ t.type # Income

\* the categories of a user with the name given, in the store given
Named(db, user, name) == {c \in db.categories : c.user_id = user /\ c.name = name}

\* C14: an UpdateCategory command whose store call succeeds replies
\* 類別不存在 and changes nothing when the user has no category of the old
\* name; when the user has one and the new name is free, that record gets
\* the new name, keeps its id and type, nothing else changes, and the reply
\* contains the new name.
C14_RenameInPlace ==
    [][(Answering("handleUpdateCategory") /\ fail' = 0)
         => LET old == Fields(text')[2]
                new == Fields(text')[3]
            IN  /\ Named(DB, userID', old) = {}
                     => reply' = MsgCategoryNotFound /\ DB' = DB
                /\ (Named(DB, userID', old) # {} /\ Named(DB, userID', new) = {})
                     => /\ DB'.categories
                             = (DB.categories \ Named(DB, userID', old))
                                 \cup {[id |-> c.id, user_id |-> c.user_id, name |-> new,
                                        type |-> c.type] : c \in Named(DB, userID', old)}
                        /\ DB'.transactions = DB.transactions
                        /\ Contains(reply', new)
                        /\ reply' # MsgCategoryNotFound]_vars

\* C14 witness: a user renamed a name that only the other user has, and
\* was told that the category does not exist.
C14_RenameOfAnothersCategory ==
    /\ Answered("handleUpdateCategory") /\ fail = 0
    /\ reply = MsgCategoryNotFound
    /\ Named(DB, userID, lastTokens[2]) = {}
    /\ \E c \in DB.categories : c.user_id # userID /\ c.name = lastTokens[2]

\* C15: a DeleteCategory command whose store call succeeds replies
\* 類別不存在 and changes nothing when the user has no such category;
\* otherwise it removes the category and every transaction that references
\* it and nothing else, and when a category of the same name is added
\* again, no update or delete of a transaction finds a record under the
\* name and the summary has no line for it.
C15_DeleteCascades ==
    [][(Answering("handleDeleteCategory") /\ fail' = 0)
         => LET n == Fields(text')[2]
                gone == Named(DB, userID', n)
            IN  /\ gone = {} => reply' = MsgCategoryNotFound /\ DB' = DB
                /\ gone # {}
                     => /\ reply' = MsgCategoryDeleted(n)
                        /\ DB'.categories = DB.categories \ gone
                        /\ DB'.transactions
                             = {t \in DB.transactions : \A c \in gone : t.category_id # c.id}
                        /\ \A ty \in {Income, Expense} :
                              \A o \in HandleMessage(DB', 0, now, userID',
                                                     Join(<<KwAddCategory, ty, n>>)) :
                                 /\ o.reply = MsgCategoryAdded(n)
                                 /\ \A a \in {A150, A200} :
                                       \A q \in HandleMessage(o.db, 0, now, userID',
                                                              Join(<<KwDelete, n, a>>))
                                                \cup HandleMessage(o.db, 0, now, userID',
                                                              Join(<<KwUpdate, n, a, A150>>)) :
                                          q.reply = MsgNoMatchingRecord /\ q.db = o.db
                                 /\ \A q \in HandleMessage(o.db, 0, now, userID',
                                                           Join(<<KwSummary>>)) :
                                       ~Contains(q.reply, <<"* ">> \o n)]_vars

\* C15 witness: the only category ever added has been deleted, and the only
\* transaction ever recorded, which was under it, is gone with it.
C15_CategoryAndTransactionGone ==
    /\ Answered("handleDeleteCategory") /\ fail = 0
    /\ reply = MsgCategoryDeleted(Lunch)
    /\ DB.categories_id_seq = 2 /\ DB.categories = {}
    /\ DB.transactions_id_seq = 2 /\ DB.transactions = {}

\* the text part occurs in r at position i
At(r, part, i) == i >= 1 /\ i + Len(part) - 1 <= Len(r) /\ SubSeq(r, i, i + Len(part) - 1) = part

\* an occurrence of a in r comes before an occurrence of b
Before(r, a, b) == \E i, j \in 1..Len(r) : i < j /\ At(r, a, i) /\ At(r, b, j)

\* C16: a ListCategories command whose store call succeeds replies with the
\* "no categories yet" notice exactly when the user has no category;
\* otherwise every category of the user is listed by name, the income
\* categories in the income section, before the expense categories in the
\* expense section, and no name the user does not have is listed.
C16_ListShowsAllCategories ==
    (Answered("handleListCategories") /\ fail = 0)
    => LET mine == {c \in DB.categories : c.user_id = userID}
       IN  /\ reply = MsgNoCategories <=> mine = {}
           /\ \A c \in mine : Contains(reply, MsgListLine(c.name))
           /\ \A c \in mine :
                 /\ c.type = Income => Before(reply, IncomeListTitle, MsgListLine(c.name))
                 /\ c.type = Expense => Before(reply, ExpenseListTitle, MsgListLine(c.name))
                 /\ \A d \in mine :
                       (c.type = Income /\ d.type = Expense)
                       => Before(reply, MsgListLine(c.name), ExpenseListTitle)
           /\ \A n \in Names :
                 Contains(reply, MsgListLine(n)) => \E c \in mine : c.name = n

\* the step on which a QuickTransaction command is answered with a
\* confirmation (✅ ...) or with a changed store
Recording ==
    /\ Answering("handleQuickTransaction")
    /\ reply'[1] = "[v] " \/ DB' # DB

\* C17: a successful QuickTransaction for category C and an amount adds
\* exactly one transaction, of that user, with C's id, C's type at that
\* instant and the parsed amount (positive, zero or negative); no category
\* and no other transaction changes; the confirmation names the type, the
\* amount and C.
C17_RecordsOneTransaction ==
    [][Recording
         => LET name == Fields(text')[1]
                amount == Atoi(Fields(text')[2]).val
            IN  /\ IsIntegerText(Fields(text')[2])
                /\ DB'.categories = DB.categories
                /\ \E c \in Named(DB, userID', name) :
                      /\ reply' = MsgRecorded(c.type, amount, name)
                      /\ \E t \in DB'.transactions \ DB.transactions :
                            /\ DB'.transactions = DB.transactions \cup {t}
                            /\ t.user_id = userID' /\ t.category_id = c.id
                            /\ t.type = c.type /\ t.amount = amount]_vars

\* C17 witness: an expense of -5 has just been recorded under 午餐.
C17_NegativeAmountRecorded ==
    /\ Answered("handleQuickTransaction") /\ lastTokens = <<Lunch, Minus5>>
    /\ reply = MsgRecorded(Expense, 0 - 5, Lunch)
    /\ \E t \in DB.transactions : t.amount = 0 - 5 /\ t.type = Expense

\* C18: a QuickTransaction command with an integer amount that names a
\* category the user does not have (never added, deleted, renamed away, or
\* only another user's) replies 類別不存在，請先新增 and adds no transaction.
C18_MissingCategoryRejected ==
    [][(/\ Answering("handleQuickTransaction")
        /\ IsIntegerText(Fields(text')[2])
        /\ Named(DB, userID', Fields(text')[1]) = {})
         => (reply' = MsgCategoryMissing /\ DB' = DB)]_vars

\* C18 witness: the command named a category that only the other user has.
C18_CategoryOfAnotherUser ==
    /\ Answered("handleQuickTransaction") /\ fail = 0
    /\ IsIntegerText(lastTokens[2])
    /\ reply = MsgCategoryMissing
    /\ \E c \in DB.categories : c.user_id # userID /\ c.name = lastTokens[1]

\* the transactions of a user of the amount given under the user's
\* category of the name given
Under(db, user, name, amount) ==
    {t \in db.transactions :
        /\ t.user_id = user /\ t.amount = amount
        /\ \E c \in Named(db, user, name) : t.category_id = c.id}

\* C19: an UpdateTransaction command whose store calls succeed replies with
\* the invalid-amount message, making no store call, when either amount
\* token is not an integer; otherwise replies "no matching record" and
\* changes nothing when the user has no transaction of the old amount under
\* the category name; otherwise one such transaction gets the new amount,
\* nothing else changes, and the reply states the old and the new amount.
C19_UpdateTransactionCases ==
    [][(Answering("handleUpdateTransaction") /\ fail' = 0)
         => LET toks == Fields(text')
                old == Atoi(toks[3]).val
                new == Atoi(toks[4]).val
                match == Under(DB, userID', toks[2], old)
            IN  IF ~IsIntegerText(toks[3]) \/ ~IsIntegerText(toks[4])
                THEN reply' = MsgAmountFormatDigits /\ calls' = <<>> /\ DB' = DB
                ELSE IF match = {}
                THEN reply' = MsgNoMatchingRecord /\ DB' = DB
                ELSE /\ reply' = MsgTransactionUpdated(toks[2], old, new)
                     /\ DB'.categories = DB.categories
                     /\ \E t \in match :
                           DB'.transactions
                             = (DB.transactions \ {t})
                                 \cup {[id |-> t.id, user_id |-> t.user_id, type |-> t.type,
                                        amount |-> new, category_id |-> t.category_id,
                                        created_at |-> t.created_at]}]_vars

\* C19 witness: of two transactions of 150 under 午餐, one has just been
\* updated to 200 and the other still has 150.
C19_OneOfTwoUpdated ==
    /\ Answered("handleUpdateTransaction") /\ fail = 0
    /\ reply = MsgTransactionUpdated(Lunch, 150, 200)
    /\ Cardinality(Under(DB, userID, Lunch, 150)) = 1
    /\ Cardinality(Under(DB, userID, Lunch, 200)) = 1
    /\ Cardinality(DB.transactions) = 2

\* request p makes the insert of an AddCategory command on this step
Inserting(p) ==
    /\ procs[p].pc = "called" /\ procs'[p].pc = "done"
    /\ procs[p].k.handler = "handleAddCategory"

\* C20: check-then-insert race.  Of the AddCategory commands for one (user,
\* name) that have passed the existence check, one whose insert comes when
\* the name is already there (another command inserted it meanwhile)
\* replies with a failure message and changes nothing, and one that
\* replies with success has created the only record of (user, name): two
\* interleaved commands leave at most one record and at most one success.
C20_RaceHasOneWinner ==
    [][\A p \in Procs :
          Inserting(p)
          => LET u == procs[p].k.user
                 n == procs[p].k.name
             IN  /\ Cardinality(Named(DB', u, n)) <= 1
                 /\ Named(DB, u, n) # {}
                      => /\ procs'[p].reply \in {MsgAddFailed, MsgCategoryExists(n)}
                         /\ DB' = DB
                 /\ procs'[p].reply = MsgCategoryAdded(n)
                      => /\ Named(DB, u, n) = {}
                         /\ Cardinality(Named(DB', u, n)) = 1
                         /\ \A q \in Procs \ {p} :
                               (/\ procs[q].pc = "called"
                                /\ procs[q].k.handler = "handleAddCategory"
                                /\ procs[q].k.user = u /\ procs[q].k.name = n)
                               => \A o \in Resume(DB', FALSE, now, procs[q].k) :
                                     o.reply = MsgAddFailed /\ o.db = DB']_vars

\* C20 witness: two AddCategory commands of one user for 獎金 both passed
\* the check; the second request's insert went through and the first's was
\* then rejected by the store.
C20_LoserOfTheRace ==
    /\ procs[1].pc = "done" /\ procs[2].pc = "done"
    /\ procs[1].user = procs[2].user
    /\ procs[1].text = Join(<<KwAddCategory, Income, Bonus>>) /\ procs[2].text = procs[1].text
    /\ procs[2].reply = MsgCategoryAdded(Bonus)
    /\ procs[1].reply = MsgAddFailed /\ ~procs[1].failed
    /\ Cardinality(Named(DB, procs[1].user, Bonus)) = 1

\* the detail line occurs in the income section of the report r: after the
\* income title and before the expense title, if there is one
InIncomeSection(r, line) ==
    \E i, j \in 1..Len(r) :
       /\ i < j /\ At(r, IncomeDetailTitle, i) /\ At(r, line, j)
       /\ \A k \in 1..Len(r) : At(r, ExpenseDetailTitle, k) => j < k

\* the detail line occurs in the expense section: after the expense title
InExpenseSection(r, line) ==
    \E k, j \in 1..Len(r) : k < j /\ At(r, ExpenseDetailTitle, k) /\ At(r, line, j)

\* C21: in a report, each category with transactions in the month has one
\* detail line, in one section: the income section when the category store
\* gives its name the type 收入, the expense section when it gives another
\* type, and, when the category types could not be read, the income section
\* when its sum is > 0 and the expense section otherwise.
C21_DetailSections ==
    Reported
    => \A c \in DB.categories :
          LET under == {t \in InMonth(userID, AskedMonth) : t.category_id = c.id}
              line == MsgDetailLine(c.name, SumAmounts(under))
              resolved == fail = 0
              income == IF resolved THEN c.type = Income ELSE SumAmounts(under) > 0
          IN  under # {}
              => /\ Cardinality({j \in 1..Len(reply) : At(reply, line, j)}) = 1
                 /\ income => InIncomeSection(reply, line) /\ ~InExpenseSection(reply, line)
                 /\ ~income => InExpenseSection(reply, line) /\ ~InIncomeSection(reply, line)

\* C21 witness: the category types could not be read, and the report lists
\* the income category 獎金, whose sum is 0, in the expense section.
C21_ZeroSumUnderExpense ==
    /\ Reported /\ fail = 2
    /\ \E c \in DB.categories : c.name = Bonus /\ c.type = Income
    /\ InExpenseSection(reply, MsgDetailLine(Bonus, 0))

\* the cases of HandleMessage that only read
ReadOnlyCases ==
    {"empty", "unrecognized", "getHelpText", "handleListCategories", "handleMonthlySummary"}

\* C22: the read-only commands leave the store as it is.  HelpText makes
\* no store call and replies the same fixed text in every state; the
\* empty-input reply, the unrecognized-command reply, ListCategories and
\* MonthlySummary add, change and delete no category and no transaction.
C22_ReadOnlyCommands ==
    [][(phase = "idle" /\ phase' = "replied")
         => LET case == Route(Fields(text'))
            IN  case \in ReadOnlyCases
                => /\ DB' = DB
                   /\ case = "getHelpText" => calls' = <<>> /\ reply' = getHelpText
                   /\ case \in {"empty", "unrecognized"} => calls' = <<>>]_vars

\* C22 witness: the help text was answered, to a command with extra
\* tokens, in a state with a category and a transaction in the store.
C22_HelpWithFullStore ==
    /\ Answered("getHelpText") /\ Len(lastTokens) = 3
    /\ reply = getHelpText /\ calls = <<>>
    /\ DB.categories # {} /\ DB.transactions # {}

\* C23: a text whose first token is 結算 goes to MonthlySummary for every
\* token count but 2.  With 2 tokens it is a QuickTransaction for a
\* category named 結算 with the second token as the amount; with 1 token
\* or with 4 or more the summary is that of the current month of the
\* clock, and there is no format error.
C23_SummaryKeywordByTokenCount ==
    (phase = "replied" /\ lastTokens # <<>> /\ lastTokens[1] = KwSummary)
    => /\ Len(lastTokens) = 2
            => /\ reply # MsgSummaryFormat
               /\ \/ reply = MsgAmountFormat /\ calls = <<>> /\ ~IsIntegerText(lastTokens[2])
                  \/ /\ IsIntegerText(lastTokens[2])
                     /\ calls[1] = "GetCategoryIdAndType"
                     /\ Named(DB, userID, KwSummary) = {} => reply = MsgCategoryMissing
                     /\ (Named(DB, userID, KwSummary) # {} /\ fail = 0)
                          => \E c \in Named(DB, userID, KwSummary) :
                                reply = MsgRecorded(c.type, Atoi(lastTokens[2]).val, KwSummary)
       /\ Len(lastTokens) # 2
            => /\ reply = MsgSummaryFormat \/ calls[1] = "GetMonthlySummary"
               /\ Len(lastTokens) # 3
                    => /\ reply # MsgSummaryFormat
                       /\ fail # 1
                            => HeaderShows(reply, EpochYear + ((now \div TicksPerMonth) \div 12),
                                           ((now \div TicksPerMonth) % 12) + 1)

\* C23 witness: 結算 150 has recorded 150 under the user's category 結算.
C23_RecordedUnderSummaryKeyword ==
    /\ phase = "replied" /\ lastTokens = <<KwSummary, A150>>
    /\ reply = MsgRecorded(Expense, 150, KwSummary)
    /\ \E t \in DB.transactions, c \in Named(DB, userID, KwSummary) :
          t.category_id = c.id /\ t.amount = 150

\* C24: referential integrity.  In every reachable store state, under any
\* interleaving of the commands, every transaction references an existing
\* category of the same user; a QuickTransaction whose category is deleted
\* between its lookup and its insert leaves no orphan transaction.
C24_ReferentialIntegrity ==
    \A t \in DB.transactions :
       \E c \in DB.categories : c.id = t.category_id /\ c.user_id = t.user_id

\* C24 witness: a QuickTransaction found its category, the category was
\* deleted before the insert, and the insert was refused by the store.
C24_InsertAfterDeleteRefused ==
    \E p \in Procs :
       /\ procs[p].pc = "done" /\ procs[p].text = Join(<<Lunch, A150>>)
       /\ procs[p].reply = MsgRecordFailed /\ ~procs[p].failed
       /\ Named(DB, procs[p].user, Lunch) = {}
       /\ DB.transactions = {}


\* C25: in every reachable store state, under any interleaving, the type
\* stored in a transaction is the type of the category it references, so
\* in no month window does the summary query return a category name under
\* both the income and the expense label.
C25_TypeOfTransactionIsTypeOfCategory ==
    /\ \A t \in DB.transactions : \A c \in DB.categories :
          c.id = t.category_id => t.type = c.type
    /\ \A user \in Users, ym \in ClockMonths :
          \A r, s \in SummaryRows(DB, user, MonthStart(ym), NextMonthStart(ym)) :
             r.name = s.name => r.type = s.type

\* C25 witness: a category with a transaction was renamed, its old name was
\* taken by a category of the other type, and both have a transaction in
\* the month.
C25_OldNameUnderOtherType ==
    \E ym \in ClockMonths :
       LET rows == SummaryRows(DB, "u1", MonthStart(ym), NextMonthStart(ym))
       IN  /\ \E r \in rows : r.name = Bonus /\ r.type = Expense
           /\ \E r \in rows : r.name = Lunch /\ r.type = Income


\* C26: confirmation implies effect under interleaving.  Whenever a request
\* for UpdateTransaction or DeleteTransaction gets its success confirmation,
\* the write it has just made changed or removed a transaction; so of two
\* requests that found the same single transaction at most one is confirmed.
C26_ConfirmationImpliesEffect ==
    [][\A p \in Procs :
          (/\ procs[p].pc = "called" /\ procs'[p].pc = "done"
           /\ procs'[p].reply \in {MsgTransactionDeleted(Lunch, 150),
                                   MsgTransactionUpdated(Lunch, 150, 200)})
          => DB'.transactions # DB.transactions]_vars


\* C27: when several transactions of the user match the category name and
\* the amount, a DeleteTransaction command whose store calls succeed removes
\* exactly one of them, and an UpdateTransaction command to another amount
\* changes the amount of exactly one of them and no other field of it; every
\* other transaction and every category is unchanged, and the number of
\* transactions goes down by one and stays the same respectively.
C27_ExactlyOneOfSeveral ==
    [][LET case == Route(Fields(text'))
           toks == Fields(text')
       IN  /\ (/\ phase = "idle" /\ phase' = "replied" /\ fail' = 0
               /\ case = "handleDeleteTransaction" /\ IsIntegerText(toks[3])
               /\ Cardinality(Under(DB, userID', toks[2], Atoi(toks[3]).val)) >= 2)
              => /\ DB'.categories = DB.categories
                 /\ DB'.transactions \subseteq DB.transactions
                 /\ \E t \in Under(DB, userID', toks[2], Atoi(toks[3]).val) :
                       DB.transactions \ DB'.transactions = {t}
                 /\ Cardinality(DB'.transactions) = Cardinality(DB.transactions) - 1
           /\ (/\ phase = "idle" /\ phase' = "replied" /\ fail' = 0
               /\ case = "handleUpdateTransaction"
               /\ IsIntegerText(toks[3]) /\ IsIntegerText(toks[4])
               /\ Atoi(toks[3]).val # Atoi(toks[4]).val
               /\ Cardinality(Under(DB, userID', toks[2], Atoi(toks[3]).val)) >= 2)
              => /\ DB'.categories = DB.categories
                 /\ \E t \in Under(DB, userID', toks[2], Atoi(toks[3]).val) :
                       /\ DB.transactions \ DB'.transactions = {t}
                       /\ \E n \in DB'.transactions :
                             /\ DB'.transactions \ DB.transactions = {n}
                             /\ n.amount = Atoi(toks[4]).val
                             /\ n.id = t.id /\ n.user_id = t.user_id
                             /\ n.category_id = t.category_id /\ n.type = t.type
                             /\ n.created_at = t.created_at
                 /\ Cardinality(DB'.transactions) = Cardinality(DB.transactions)]_vars

\* C27 witness: two transactions of 150 had been recorded under 午餐 and a
\* DeleteTransaction command has just removed one of them.
C27_OneOfTwoDeleted ==
    /\ Answered("handleDeleteTransaction") /\ fail = 0
    /\ reply = MsgTransactionDeleted(Lunch, 150)
    /\ DB.transactions_id_seq = 3
    /\ Cardinality(DB.transactions) = 1
    /\ Cardinality(Under(DB, userID, Lunch, 150)) = 1


\* the sum of the amounts of the detail lines that the report of the month
\* shows in the income section (income = TRUE) or the expense section
ListedTotal(income) ==
    LET mine == InMonth(userID, AskedMonth)
        sumOf(c) == SumAmounts({t \in mine : t.category_id = c.id})
        listed == {c \in DB.categories :
                     /\ \E t \in mine : t.category_id = c.id
                     /\ IF income THEN InIncomeSection(reply, MsgDetailLine(c.name, sumOf(c)))
                        ELSE InExpenseSection(reply, MsgDetailLine(c.name, sumOf(c)))}
    IN  SumAmounts({[amount |-> sumOf(c), id |-> c.id] : c \in listed})

\* C28: in every report the detail sections agree with the header: the
\* amounts listed in the income section sum to the header's income and the
\* amounts listed in the expense section to the header's expense, also when
\* the category types could not be read.
C28_DetailsAgreeWithHeader ==
    Reported
    => LET header == MsgSummaryHeader(EpochYear + (AskedMonth \div 12), (AskedMonth % 12) + 1,
                                      ListedTotal(TRUE), ListedTotal(FALSE))
       IN  Len(reply) >= Len(header) /\ SubSeq(reply, 1, Len(header)) = header


\* the store db without the categories and transactions of other users
Own(db, user) ==
    [db EXCEPT !.categories = {c \in @ : c.user_id = user},
               !.transactions = {t \in @ : t.user_id = user}]

\* C29: user isolation.  A command of user A leaves every category and
\* transaction of every other user as it was, and its reply and its effect
\* on A's own records are those the same command has on the store without
\* the other users' records, also when both users use the same category
\* names and amounts.
C29_UserIsolation ==
    [][(phase = "idle" /\ phase' = "replied")
         => /\ \A other \in Users \ {userID'} :
                  /\ Own(DB', other).categories = Own(DB, other).categories
                  /\ Own(DB', other).transactions = Own(DB, other).transactions
            /\ \E o \in HandleMessage(Own(DB, userID'), fail', now, userID', text') :
                  /\ o.reply = reply'
                  /\ o.db = Own(DB', userID')]_vars

\* C29 witness: both users had a transaction of 150 under a category 午餐
\* of their own; the first user has just deleted theirs and the second
\* user's is still there.
C29_NamesakeUntouched ==
    /\ Answered("handleDeleteTransaction") /\ userID = "u1" /\ fail = 0
    /\ reply = MsgTransactionDeleted(Lunch, 150)
    /\ Under(DB, "u1", Lunch, 150) = {}
    /\ Named(DB, "u1", Lunch) # {}
    /\ Under(DB, "u2", Lunch, 150) # {}


\* C30: an UpdateCategory command whose old and new name are two different
\* existing categories of the user renames and merges nothing: the store is
\* unchanged and the reply is the failure message, neither the rename
\* confirmation nor "category not found".
C30_RenameOntoExistingFails ==
    [][LET toks == Fields(text')
       IN  (/\ phase = "idle" /\ phase' = "replied"
            /\ Route(toks) = "handleUpdateCategory"
            /\ toks[2] # toks[3]
            /\ Named(DB, userID', toks[2]) # {}
            /\ Named(DB, userID', toks[3]) # {})
           => /\ DB' = DB
              /\ reply' = MsgUpdateFailed
              /\ reply' # MsgCategoryUpdated(toks[3])
              /\ reply' # MsgCategoryNotFound]_vars

\* C30 witness: the user has 午餐, with a transaction, and 獎金; the command
\* to rename 午餐 to 獎金 reached the store and has been answered with the
\* failure message.
C30_BothNamesStillThere ==
    /\ Answered("handleUpdateCategory") /\ fail = 0
    /\ lastTokens = <<KwUpdateCategory, Lunch, Bonus>>
    /\ reply = MsgUpdateFailed
    /\ Named(DB, userID, Lunch) # {} /\ Named(DB, userID, Bonus) # {}
    /\ \E t \in DB.transactions : \E c \in Named(DB, userID, Lunch) : t.category_id = c.id

====
